---- MODULE Spec2Model ----
(***************************************************************************)
(* docblog: the Document Rewriter (HtmlDoc.WithFixedContent and the        *)
(* concurrent tree traversal HtmlDoc.modifyContent) inside processHtml,    *)
(* the Asset Path Normalizer (NormalizedAssetPath) and the orchestrator's  *)
(* png loop, the Frontmatter Composer (HtmlDoc.WithFrontmatter), and the   *)
(* Metadata Index Store (getOrCreateIndexSheet, GetIndexSheet,             *)
(* UpdateIndexMetadata, ParseRowData, ToRowData, UpdateWith), and the      *)
(* orchestrator: a whole run of main, and runs one after another.          *)
(*                                                                         *)
(* Each part has its own specification: Spec, SpecAssets, SpecFrontmatter, *)
(* SpecIndex, SpecMerge and SpecRun; a specification leaves the variables  *)
(* of the other parts at their idle values.                                *)
(*                                                                         *)
(* A time.Time is its day counted from 30 December 1899 and the second of  *)
(* that day.                                                               *)
(* Strings are TLA+ strings; a character is a string of length one.        *)
(* Node identifiers are positive integers, 0 is the nil pointer.           *)
(***************************************************************************)
EXTENDS Integers, Sequences, FiniteSets, TLC

(***************************************************************************)
(* String helpers (Go's strings package and slicing).                      *)
(***************************************************************************)
CharAt(s, i) == SubSeq(s, i, i)

\* s[i-1:] in Go terms: the suffix starting at the 1-based position i
From(s, i) == SubSeq(s, i, Len(s))

HasPrefix(s, p) == Len(s) >= Len(p) /\ SubSeq(s, 1, Len(p)) = p

HasSuffix(s, p) == Len(s) >= Len(p) /\ SubSeq(s, Len(s) - Len(p) + 1, Len(s)) = p

\* does the literal lit occur in s at position i
LitAt(s, i, lit) == i + Len(lit) - 1 <= Len(s) /\ SubSeq(s, i, i + Len(lit) - 1) = lit

\* 1-based position of the first occurrence of the character c at or after
\* position i, or 0 when there is none
RECURSIVE IndexFrom(_, _, _)
IndexFrom(s, c, i) ==
    IF i > Len(s) THEN 0
    ELSE IF CharAt(s, i) = c THEN i
    ELSE IndexFrom(s, c, i + 1)

\* 1-based position of the last occurrence of c at or before position i, or 0
RECURSIVE LastIndexFrom(_, _, _)
LastIndexFrom(s, c, i) ==
    IF i < 1 THEN 0
    ELSE IF CharAt(s, i) = c THEN i
    ELSE LastIndexFrom(s, c, i - 1)

\* strings.Split(s, sep) for a one-character separator
RECURSIVE Split(_, _)
Split(s, sep) ==
    LET k == IndexFrom(s, sep, 1)
    IN  IF k = 0 THEN <<s>>
        ELSE <<SubSeq(s, 1, k - 1)>> \o Split(From(s, k + 1), sep)

Digits == {"0", "1", "2", "3", "4", "5", "6", "7", "8", "9"}

Lower == {"a", "b", "c", "d", "e", "f", "g", "h", "i", "j", "k", "l", "m",
          "n", "o", "p", "q", "r", "s", "t", "u", "v", "w", "x", "y", "z"}

Upper == {"A", "B", "C", "D", "E", "F", "G", "H", "I", "J", "K", "L", "M",
          "N", "O", "P", "Q", "R", "S", "T", "U", "V", "W", "X", "Y", "Z"}

\* the regexp class \w
WordChars == Digits \cup Lower \cup Upper \cup {"_"}

HexChars == Digits \cup {"a", "b", "c", "d", "e", "f", "A", "B", "C", "D", "E", "F"}

(***************************************************************************)
(* colorRegex = `color:[^;]+;` and fontRegex = `font-\w+:[^;]+;`, each     *)
(* used through ReplaceAllString(val, "").                                 *)
(***************************************************************************)
\* length of the longest run of characters other than ";" starting at i
RECURSIVE RunNotSemi(_, _)
RunNotSemi(s, i) ==
    IF i > Len(s) \/ CharAt(s, i) = ";" THEN 0
    ELSE 1 + RunNotSemi(s, i + 1)

\* length of the longest run of \w characters starting at i
RECURSIVE RunWord(_, _)
RunWord(s, i) ==
    IF i > Len(s) \/ CharAt(s, i) \notin WordChars THEN 0
    ELSE 1 + RunWord(s, i + 1)

\* [^;]+; at position i: the length matched, 0 when there is no match.
\* The class excludes ";", so the greedy run is the only candidate.
ValueSemiAt(s, i) ==
    LET r == RunNotSemi(s, i)
    IN  IF r >= 1 /\ i + r <= Len(s) THEN r + 1 ELSE 0

\* length of the match of colorRegex that starts at position i, 0 when none
ColorMatchAt(s, i) ==
    IF ~LitAt(s, i, "color:") THEN 0
    ELSE LET v == ValueSemiAt(s, i + 6)
         IN  IF v = 0 THEN 0 ELSE 6 + v

\* length of the match of fontRegex that starts at position i, 0 when none.
\* \w excludes ":", so \w+ must be the whole run of word characters.
FontMatchAt(s, i) ==
    IF ~LitAt(s, i, "font-") THEN 0
    ELSE LET w == RunWord(s, i + 5)
         IN  IF w = 0 \/ ~LitAt(s, i + 5 + w, ":") THEN 0
             ELSE LET v == ValueSemiAt(s, i + 5 + w + 1)
                  IN  IF v = 0 THEN 0 ELSE 5 + w + 1 + v

\* colorRegex.ReplaceAllString(s, ""): leftmost non-overlapping matches removed
RECURSIVE ReplaceColorFrom(_, _)
ReplaceColorFrom(s, i) ==
    IF i > Len(s) THEN ""
    ELSE LET m == ColorMatchAt(s, i)
         IN  IF m > 0 THEN ReplaceColorFrom(s, i + m)
             ELSE CharAt(s, i) \o ReplaceColorFrom(s, i + 1)

\* fontRegex.ReplaceAllString(s, "")
RECURSIVE ReplaceFontFrom(_, _)
ReplaceFontFrom(s, i) ==
    IF i > Len(s) THEN ""
    ELSE LET m == FontMatchAt(s, i)
         IN  IF m > 0 THEN ReplaceFontFrom(s, i + m)
             ELSE CharAt(s, i) \o ReplaceFontFrom(s, i + 1)

\* lines 88-90: val := attr.Val + ";", then both replacements
StripStyle(val) == ReplaceFontFrom(ReplaceColorFrom(val \o ";", 1), 1)

HideStyle == "visibility:hidden;display:none"

(***************************************************************************)
(* path/filepath.Base and NormalizedAssetPath.                             *)
(***************************************************************************)
RECURSIVE TrimTrailingSlashes(_)
TrimTrailingSlashes(p) ==
    IF Len(p) > 0 /\ CharAt(p, Len(p)) = "/"
    THEN TrimTrailingSlashes(SubSeq(p, 1, Len(p) - 1))
    ELSE p

Base(path) ==
    IF path = "" THEN "."
    ELSE LET t == TrimTrailingSlashes(path)
             k == LastIndexFrom(t, "/", Len(t))
             e == IF k > 0 THEN From(t, k + 1) ELSE t
         IN  IF e = "" THEN "/" ELSE e

NormalizedAssetPath(assetPathPrefix, docId, assetRelativePath) ==
    (IF assetPathPrefix # "" THEN assetPathPrefix \o "/" ELSE "")
        \o docId \o "-" \o Base(assetRelativePath)

(***************************************************************************)
(* net/url as used on an anchor's href: url.Parse, URL.Query, Values.Get.  *)
(***************************************************************************)
googleUrlPrefix == "https://www.google.com/url"

\* the percent escapes the modelled inputs use, with the byte they decode to
EscapeTable == [e \in {"20", "26", "2F", "3A", "3D", "3F"} |->
    CASE e = "20" -> " " [] e = "26" -> "&" [] e = "2F" -> "/"
      [] e = "3A" -> ":" [] e = "3D" -> "=" [] e = "3F" -> "?"]

\* is every "%" in s followed by two hexadecimal digits
RECURSIVE EscapesOk(_, _)
EscapesOk(s, i) ==
    IF i > Len(s) THEN TRUE
    ELSE IF CharAt(s, i) = "%"
         THEN /\ i + 2 <= Len(s)
              /\ CharAt(s, i + 1) \in HexChars
              /\ CharAt(s, i + 2) \in HexChars
              /\ EscapesOk(s, i + 3)
         ELSE EscapesOk(s, i + 1)

\* url.QueryUnescape of a string whose escapes are well formed
RECURSIVE QueryUnescape(_, _)
QueryUnescape(s, i) ==
    IF i > Len(s) THEN ""
    ELSE IF CharAt(s, i) = "%"
         THEN EscapeTable[SubSeq(s, i + 1, i + 2)] \o QueryUnescape(s, i + 3)
         ELSE IF CharAt(s, i) = "+" THEN " " \o QueryUnescape(s, i + 1)
         ELSE CharAt(s, i) \o QueryUnescape(s, i + 1)

\* the part of rawURL before the fragment
NoFragment(rawURL) ==
    LET k == IndexFrom(rawURL, "#", 1)
    IN  IF k = 0 THEN rawURL ELSE SubSeq(rawURL, 1, k - 1)

\* URL.Path as written (before "?") and URL.RawQuery (after the first "?")
RawPath(rawURL) ==
    LET u == NoFragment(rawURL)
        k == IndexFrom(u, "?", 1)
    IN  IF k = 0 THEN u ELSE SubSeq(u, 1, k - 1)

RawQuery(rawURL) ==
    LET u == NoFragment(rawURL)
        k == IndexFrom(u, "?", 1)
    IN  IF k = 0 THEN "" ELSE From(u, k + 1)

\* url.Parse(rawURL) returns err == nil; for a URL that starts with
\* googleUrlPrefix scheme and host are valid, so only the path can fail
UrlParseOk(rawURL) == EscapesOk(RawPath(rawURL), 1)

\* url.ParseQuery keeps the pairs it can decode: no ";" in the pair and
\* well-formed escapes in key and value
PairOk(pair) == IndexFrom(pair, ";", 1) = 0 /\ EscapesOk(pair, 1)

PairKey(pair) ==
    LET k == IndexFrom(pair, "=", 1)
    IN  QueryUnescape(IF k = 0 THEN pair ELSE SubSeq(pair, 1, k - 1), 1)

PairValue(pair) ==
    LET k == IndexFrom(pair, "=", 1)
    IN  IF k = 0 THEN "" ELSE QueryUnescape(From(pair, k + 1), 1)

\* the decoded values of key in the query, in order
RECURSIVE ValuesOf(_, _)
ValuesOf(pairs, key) ==
    IF pairs = <<>> THEN <<>>
    ELSE LET p == Head(pairs)
         IN  (IF p # "" /\ PairOk(p) /\ PairKey(p) = key
              THEN <<PairValue(p)>> ELSE <<>>) \o ValuesOf(Tail(pairs), key)

\* url.Query().Get(key): the first value, "" when there is none
QueryGet(rawURL, key) ==
    LET vs == ValuesOf(Split(RawQuery(rawURL), "&"), key)
    IN  IF vs = <<>> THEN "" ELSE Head(vs)

\* lines 98-108: the new value of an anchor's href
FixHref(val) ==
    IF HasPrefix(val, googleUrlPrefix) /\ UrlParseOk(val) /\ QueryGet(val, "q") # ""
    THEN QueryGet(val, "q")
    ELSE val

(***************************************************************************)
(* Bounds of the model.                                                    *)
(***************************************************************************)
\* most children of the body element in an input document
MaxKids == 2

(***************************************************************************)
(* Input documents.  A document is described by the children of its head   *)
(* and body elements and the attributes of body; html.Parse always yields  *)
(* document > html > (head, body).                                         *)
(***************************************************************************)
At(k, v) == [Key |-> k, Val |-> v]

El(data, attr) == [Type |-> "element", Data |-> data, Attr |-> attr, Kids |-> <<>>]

ElWith(data, attr, kid) == [Type |-> "element", Data |-> data, Attr |-> attr, Kids |-> <<kid>>]

Text(data) == [Type |-> "text", Data |-> data, Attr |-> <<>>, Kids |-> <<>>]

HeadingNames == {"h1", "h2", "h3", "h4", "h5", "h6"}

StyleInputs == {"color:red", "margin:0", "margin:0;color:red;font-weight:700",
                "background-color:red;margin:0", "font-variant-caps:x", ""}

HrefInputs == {"https://www.google.com/url?q=https://e.com/a&sa=D",
               "https://www.google.com/url?q=a%3Db",
               "https://www.google.com/url?sa=D",
               "https://www.google.com/url?q=",
               "https://www.google.com/url%zz?q=x",
               "https://e.com/a?q=x"}

SrcInputs == {"images/pic.png", "images/a.png", "pic.png", ""}

StyleEl == El("style", <<>>)

PlainP == El("p", <<>>)

Fillers == {StyleEl, PlainP}

HeadingProbes == {ElWith(h, <<>>, Text("Hi")) : h \in HeadingNames}

ParagraphProbes ==
    {El("p", <<At("class", c)>>) : c \in {"title", "subtitle"}}
    \cup {El("p", <<At("class", c), At("style", "margin:0")>>) : c \in {"title", "subtitle", "c1"}}
    \cup {El("p", <<At("style", s)>>) : s \in StyleInputs}

AnchorProbes ==
    {El("a", <<At("href", h)>>) : h \in HrefInputs}
    \cup {ElWith("p", <<>>, El("a", <<At("href", "https://www.google.com/url?q=https://e.com/a&sa=D")>>))}

ImageProbes ==
    {El("img", <<At("src", s)>>) : s \in SrcInputs}
    \cup {ElWith("p", <<>>, El("img", <<At("src", "images/pic.png")>>))}

Probes == HeadingProbes \cup ParagraphProbes \cup AnchorProbes \cup ImageProbes

\* sequences of fillers of length n
FillerSeqs(n) == [1..n -> Fillers]

\* children of body: fillers, at most one of them replaced by a probe
BodyKidSeqs ==
    UNION {FillerSeqs(n) \cup
           {[f EXCEPT ![i] = pr] : f \in FillerSeqs(n), i \in 1..n, pr \in Probes}
           : n \in 0..MaxKids}

Doc(prefix, headKids, bodyAttr, bodyKids) ==
    [Id |-> "doc123", Prefix |-> prefix, HeadKids |-> headKids,
     BodyAttr |-> bodyAttr, BodyKids |-> bodyKids]

\* documents that vary the children of body
ShapeInputs == {Doc("", <<>>, <<>>, bk) : bk \in BodyKidSeqs}

\* documents that vary the style of body, with the stylesheet in head
BodyAttrs == {<<>>} \cup {<<At("style", s)>> : s \in StyleInputs}

BodyStyleInputs ==
    {Doc("", <<StyleEl>>, ba, bk) :
        ba \in BodyAttrs,
        bk \in {<<>>, <<ElWith("h1", <<>>, Text("Hi")), El("img", <<At("src", "images/a.png")>>)>>}}

\* documents rewritten with a non-empty asset path prefix
PrefixInputs ==
    {Doc("assets", <<>>, <<>>, <<pr>>) : pr \in ImageProbes}
    \cup {Doc("assets", <<>>, <<>>, <<StyleEl, pr>>) : pr \in ImageProbes}

\* the documents WithFixedContent is run on, with the receiver's Id and
\* the assetPathPrefix argument
Inputs == ShapeInputs \cup BodyStyleInputs \cup PrefixInputs

(***************************************************************************)
(* The node table html.Parse builds for an input (html.Node's fields).     *)
(***************************************************************************)
Nil == 0

NumHead(in) == Len(in.HeadKids)

NumBody(in) == Len(in.BodyKids)

HeadKidId(in, i) == 4 + i

BodyKidId(in, j) == 4 + NumHead(in) + j

NestedId(in, j) == 4 + NumHead(in) + NumBody(in) + j

NodeIds(in) ==
    (1..(4 + NumHead(in) + NumBody(in)))
    \cup {NestedId(in, j) : j \in {k \in 1..NumBody(in) : in.BodyKids[k].Kids # <<>>}}

Node(type, data, attr, parent, first, last, prev, next) ==
    [Type |-> type, Data |-> data, Attr |-> attr, Parent |-> parent,
     FirstChild |-> first, LastChild |-> last, PrevSibling |-> prev, NextSibling |-> next]

ParseTree(in) ==
    LET H == NumHead(in)
        B == NumBody(in)
    IN  [n \in NodeIds(in) |->
          IF n = 1 THEN Node("document", "", <<>>, Nil, 2, 2, Nil, Nil)
          ELSE IF n = 2 THEN Node("element", "html", <<>>, 1, 3, 4, Nil, Nil)
          ELSE IF n = 3 THEN Node("element", "head", <<>>, 2,
                                  IF H > 0 THEN 5 ELSE Nil, IF H > 0 THEN 4 + H ELSE Nil, Nil, 4)
          ELSE IF n = 4 THEN Node("element", "body", in.BodyAttr, 2,
                                  IF B > 0 THEN 5 + H ELSE Nil, IF B > 0 THEN 4 + H + B ELSE Nil, 3, Nil)
          ELSE IF n <= 4 + H THEN
               LET i == n - 4
                   k == in.HeadKids[i]
               IN  Node(k.Type, k.Data, k.Attr, 3, Nil, Nil,
                        IF i > 1 THEN n - 1 ELSE Nil, IF i < H THEN n + 1 ELSE Nil)
          ELSE IF n <= 4 + H + B THEN
               LET j == n - 4 - H
                   k == in.BodyKids[j]
                   c == IF k.Kids # <<>> THEN NestedId(in, j) ELSE Nil
               IN  Node(k.Type, k.Data, k.Attr, 4, c, c,
                        IF j > 1 THEN n - 1 ELSE Nil, IF j < B THEN n + 1 ELSE Nil)
          ELSE LET j == n - 4 - H - B
                   k == in.BodyKids[j].Kids[1]
               IN  Node(k.Type, k.Data, k.Attr, BodyKidId(in, j), Nil, Nil, Nil, Nil)]

(***************************************************************************)
(* html.Render: the serialization of the tree reachable from a node        *)
(* through FirstChild and NextSibling, as a sequence of tokens.            *)
(***************************************************************************)
\* the elements html.Render writes without children and without an end tag
VoidElements == {"area", "base", "br", "col", "embed", "hr", "img", "input",
                 "keygen", "link", "meta", "param", "source", "track", "wbr"}

RECURSIVE RenderNode(_, _), RenderList(_, _)
RenderNode(t, n) ==
    IF t[n].Type = "text" THEN <<[Kind |-> "text", Data |-> t[n].Data, Attr |-> <<>>]>>
    ELSE IF t[n].Type = "document" THEN RenderList(t, t[n].FirstChild)
    ELSE IF t[n].Data \in VoidElements
         THEN <<[Kind |-> "void", Data |-> t[n].Data, Attr |-> t[n].Attr]>>
    ELSE <<[Kind |-> "open", Data |-> t[n].Data, Attr |-> t[n].Attr]>>
         \o RenderList(t, t[n].FirstChild)
         \o <<[Kind |-> "close", Data |-> t[n].Data, Attr |-> <<>>]>>

RenderList(t, c) ==
    IF c = Nil THEN <<>>
    ELSE RenderNode(t, c) \o RenderList(t, t[c].NextSibling)

(***************************************************************************)
(* modifyContent, lines 84-150: the rewrite of the visited node itself.    *)
(***************************************************************************)
\* lines 86-93: every style attribute loses its color and font-* declarations
DropFonts(attr) ==
    [i \in 1..Len(attr) |->
        IF attr[i].Key = "style" THEN At("style", StripStyle(attr[i].Val)) ELSE attr[i]]

\* lines 98-108
FixAnchor(attr) ==
    [i \in 1..Len(attr) |->
        IF attr[i].Key = "href" THEN At("href", FixHref(attr[i].Val)) ELSE attr[i]]

\* the body case without the assignment of line 113
ClearBodyStyleSkipped(attr) == attr

\* lines 111-115
ClearBodyStyle(attr) ==
    [i \in 1..Len(attr) |-> IF attr[i].Key = "style" THEN At("style", "") ELSE attr[i]]

\* line 117: fmt.Sprintf("h%d", int(node.Data[1]-'0')+1)
HeadingLevel(data) == CHOOSE k \in 1..6 : CharAt(data, 2) = ToString(k)

DeeperHeading(data) == "h" \o ToString(HeadingLevel(data) + 1)

\* lines 120-125
FixImage(attr, prefix, id) ==
    [i \in 1..Len(attr) |->
        IF attr[i].Key = "src"
        THEN At("src", "/" \o NormalizedAssetPath(prefix, id, attr[i].Val))
        ELSE attr[i]]

\* lines 128-138: both branches set isTitle
IsTitle(attr) ==
    \E i \in 1..Len(attr) :
        attr[i].Key = "class" /\ (attr[i].Val = "title" \/ attr[i].Val = "subtitle")

\* lines 140-146
HideTitle(attr) ==
    IF IsTitle(attr)
    THEN [i \in 1..Len(attr) |->
            IF attr[i].Key = "style"
            THEN At("style", attr[i].Val \o ";" \o HideStyle)
            ELSE attr[i]]
    ELSE attr

\* the node's Data and Attr after lines 84-147 (the detaching of a style
\* element, line 148, is RemoveChild below)
Rewritten(nd, prefix, id) ==
    IF nd.Type # "element" THEN nd
    ELSE LET a == DropFonts(nd.Attr)
         IN  CASE nd.Data = "a" -> [nd EXCEPT !.Attr = FixAnchor(a)]
               [] nd.Data = "body" -> [nd EXCEPT !.Attr = ClearBodyStyle(a)]
               [] nd.Data \in HeadingNames -> [nd EXCEPT !.Attr = a, !.Data = DeeperHeading(nd.Data)]
               [] nd.Data = "img" -> [nd EXCEPT !.Attr = FixImage(a, prefix, id)]
               [] nd.Data = "p" -> [nd EXCEPT !.Attr = HideTitle(a)]
               [] OTHER -> [nd EXCEPT !.Attr = a]

(***************************************************************************)
(* State.                                                                  *)
(***************************************************************************)
VARIABLES
    input,    \* the HtmlDoc under rewrite: Id, Content (as its node structure), and the prefix argument
    mainPc,   \* position of processHtml: "start", "modify", "done", "written", "failed"
    tree,     \* the html.Node table built by html.Parse, by node identifier
    pc,       \* position of the modifyContent call on each node
    cur,      \* the loop variable child of each modifyContent call
    wg,       \* the counter of the sync.WaitGroup of each modifyContent call
    spawner,  \* the node whose call started the goroutine of each node
    visits,   \* how many modifyContent calls were started on each node
    out,      \* the bytes.Buffer b that html.Render writes, a sequence of tokens
    htmlDoc,  \* the HtmlDoc value processHtml holds: its Content
    err,      \* the error processHtml returns, "" for nil
    post      \* the post file under PostsOutputPath, <<>> while none is written

\* the orchestrator's loop over the png files of the exported documents
VARIABLES
    AssetsPathPrefix,  \* args.AssetsPathPrefix
    unzippedFiles,     \* the png files still to process, each with the Id of its document
    assetFiles         \* the files under AssetsOutputPath: for each path the writes it received

\* one call of HtmlDoc.WithFrontmatter on a document given by its bytes
VARIABLES
    doc,       \* the receiver: the GoogleDocMetadata fields and Content
    returned   \* what the call returned: the HtmlDoc and the error, <<>> before the call

\* the index sheet of the Drive folder and the calls of DriveService on it
VARIABLES
    loopVarPerIteration,  \* the build: TRUE when a range loop declares its variable per iteration
    driveFiles,     \* the spreadsheets named index in the folder, by file id
    spreadsheets,   \* the grid of every spreadsheet, by file id
    calls,          \* the requests sent to the Drive and Sheets services so far
    filesMetadata,  \* the records handed to the last UpdateIndexMetadata
    result          \* what the last operation returned, <<>> before the first

\* the merge loop of main, cmd/docblog/main.go lines 55-60 (it works on
\* filesMetadata, declared above)
VARIABLES
    indexMetadata,  \* what GetIndexMetadata returned: the index records by identifier
    listed,         \* filesMetadata as ListGoogleDocs returned it
    mergeIdx        \* the position of the loop in filesMetadata, from 1

\* one run of main after another, cmd/docblog/main.go lines 27-98 (the run
\* works on the folder, the sheets, filesMetadata, indexMetadata and the
\* asset files declared above)
VARIABLES
    runPc,    \* position of main: "read", "list", "loop", "files", "done", "panic"
    fileIdx,  \* the position of the loop of lines 62-93 in filesMetadata, from 1
    posts,    \* the files the run wrote under PostsOutputPath: for each path its content
    runLog,   \* what main has called so far in this run, in order
    found,    \* the folder and the spreadsheets as the run found them
    edited,   \* the index rows as the operator left them before the first run, by identifier
    runs      \* the runs that ended before this one

rewriterVars == <<input, mainPc, tree, pc, cur, wg, spawner, visits, out, htmlDoc, err, post>>
assetVars == <<AssetsPathPrefix, unzippedFiles, assetFiles>>

frontmatterVars == <<doc, returned>>

indexVars == <<loopVarPerIteration, driveFiles, spreadsheets, calls, filesMetadata, result>>

mergeVars == <<indexMetadata, listed, mergeIdx>>

runVars == <<runPc, fileIdx, posts, runLog, found, edited, runs>>

vars == <<rewriterVars, assetVars, frontmatterVars, indexVars, mergeVars, runVars>>

\* the rewriter before any document is handed to it
RewriterIdle ==
    /\ input = <<>>
    /\ mainPc = "idle"
    /\ tree = <<>>
    /\ pc = <<>>
    /\ cur = <<>>
    /\ wg = <<>>
    /\ spawner = <<>>
    /\ visits = <<>>
    /\ out = <<>>
    /\ htmlDoc = <<>>
    /\ err = ""
    /\ post = <<>>

\* no WithFrontmatter call under study
FrontmatterIdle ==
    /\ doc = <<>>
    /\ returned = <<>>

\* no DriveService under study
IndexIdle ==
    /\ loopVarPerIteration = TRUE
    /\ driveFiles = {}
    /\ spreadsheets = <<>>
    /\ calls = <<>>
    /\ filesMetadata = <<>>
    /\ result = <<>>

\* no merge loop under study
MergeIdle ==
    /\ indexMetadata = <<>>
    /\ listed = <<>>
    /\ mergeIdx = 1

\* no run of main under study
RunIdle ==
    /\ runPc = "idle"
    /\ fileIdx = 1
    /\ posts = <<>>
    /\ runLog = <<>>
    /\ found = <<>>
    /\ edited = <<>>
    /\ runs = 0

\* the asset loop with no export to process
AssetsIdle ==
    /\ AssetsPathPrefix = ""
    /\ unzippedFiles = <<>>
    /\ assetFiles = <<>>

\* lines 32-37: the document as handed over, Content being the exported
\* markup (the serialisation of the input's node structure)
NewHtmlDoc(in) == [Content |-> RenderNode(ParseTree(in), 1)]

Init ==
    /\ input \in Inputs
    /\ mainPc = "start"
    /\ tree = <<>>
    /\ pc = <<>>
    /\ cur = <<>>
    /\ wg = <<>>
    /\ spawner = <<>>
    /\ visits = <<>>
    /\ out = <<>>
    /\ htmlDoc = NewHtmlDoc(input)
    /\ err = ""
    /\ post = <<>>
    /\ AssetsIdle
    /\ FrontmatterIdle
    /\ IndexIdle
    /\ MergeIdle
    /\ RunIdle

(***************************************************************************)
(* WithFixedContent, lines 66-81.                                          *)
(***************************************************************************)
\* lines 67-72: html.Parse, then the call modifyContent(rootNode, prefix)
Parse ==
    /\ mainPc = "start"
    /\ mainPc' = "modify"
    /\ tree' = ParseTree(input)
    /\ pc' = [n \in NodeIds(input) |-> IF n = 1 THEN "visit" ELSE "idle"]
    /\ cur' = [n \in NodeIds(input) |-> Nil]
    /\ wg' = [n \in NodeIds(input) |-> 0]
    /\ spawner' = [n \in NodeIds(input) |-> Nil]
    /\ visits' = [n \in NodeIds(input) |-> IF n = 1 THEN 1 ELSE 0]
    /\ UNCHANGED <<input, out, htmlDoc, err, post>>

\* lines 67-70: html.Parse returns an error, WithFixedContent returns the
\* receiver with it, and processHtml returns (main.go lines 120-123)
ParseFail ==
    /\ mainPc = "start"
    /\ mainPc' = "failed"
    /\ err' = "failed to fix assets"
    /\ UNCHANGED <<input, tree, pc, cur, wg, spawner, visits, out, htmlDoc, post>>

\* lines 74-80: html.Render once modifyContent(rootNode) has returned
Render ==
    /\ mainPc = "modify"
    /\ pc[1] = "done"
    /\ out' = RenderNode(tree, 1)
    /\ htmlDoc' = [htmlDoc EXCEPT !.Content = out']
    /\ mainPc' = "done"
    /\ UNCHANGED <<input, tree, pc, cur, wg, spawner, visits, err, post>>

\* lines 74-77: html.Render returns an error after writing k tokens to b;
\* a mutant that stores what b holds in the returned document
RenderFailStoresBuffer ==
    /\ mainPc = "modify"
    /\ pc[1] = "done"
    /\ \E k \in 0..(Len(RenderNode(tree, 1)) - 1) :
           out' = SubSeq(RenderNode(tree, 1), 1, k)
    /\ htmlDoc' = [htmlDoc EXCEPT !.Content = out']
    /\ mainPc' = "failed"
    /\ err' = "failed to fix assets"
    /\ UNCHANGED <<input, tree, pc, cur, wg, spawner, visits, post>>

\* lines 74-77: html.Render returns an error after writing k tokens to b,
\* WithFixedContent returns the receiver with the error, and processHtml
\* returns (main.go lines 120-123)
RenderFail ==
    /\ mainPc = "modify"
    /\ pc[1] = "done"
    /\ \E k \in 0..(Len(RenderNode(tree, 1)) - 1) :
           out' = SubSeq(RenderNode(tree, 1), 1, k)
    /\ mainPc' = "failed"
    /\ err' = "failed to fix assets"
    /\ UNCHANGED <<input, tree, pc, cur, wg, spawner, visits, htmlDoc, post>>

\* part_006 lines 41-56 as processHtml sees it: the frontmatter block of
\* the document, one token in front of the Content tokens
FrontmatterToken(in) == [Kind |-> "frontmatter", Data |-> in.Id]

\* main.go lines 125-130: WithFrontmatter, then WriteFile to outputPath
WritePost ==
    /\ mainPc = "done"
    /\ htmlDoc' = [htmlDoc EXCEPT !.Content = <<FrontmatterToken(input)>> \o @]
    /\ post' = htmlDoc'.Content
    /\ mainPc' = "written"
    /\ UNCHANGED <<input, tree, pc, cur, wg, spawner, visits, out, err>>

\* main.go lines 125-128: yaml.Marshal returns an error and processHtml
\* returns before WriteFile
FrontmatterFail ==
    /\ mainPc = "done"
    /\ mainPc' = "failed"
    /\ err' = "failed to add frontmatter"
    /\ UNCHANGED <<input, tree, pc, cur, wg, spawner, visits, out, htmlDoc, post>>

(***************************************************************************)
(* modifyContent, lines 83-161, one call per node n.  Statements that      *)
(* touch only what the call owns (the node's Data and Attr, its loop       *)
(* variable, its WaitGroup) are taken together with the next statement     *)
(* that touches a sibling link.  The calls are goroutines that share the   *)
(* node links without synchronisation; their steps interleave statement    *)
(* by statement, which is one of the behaviours a build can show.          *)
(***************************************************************************)
IsStyleEl(nd) == nd.Type = "element" /\ nd.Data = "style"

\* lines 153-160 once the loop variable of n's call has taken the value c:
\* a non-nil child gets wg.Add(1) and its goroutine; with no child left
\* wg.Wait() returns at once when no goroutine is outstanding, the call
\* returns and (line 157) signals the WaitGroup of the call that spawned it
LoopTo(n, c) ==
    IF c # Nil
    THEN /\ pc' = [pc EXCEPT ![n] = "advance", ![c] = "visit"]
         /\ cur' = [cur EXCEPT ![n] = c]
         /\ wg' = [wg EXCEPT ![n] = @ + 1]
         /\ spawner' = [spawner EXCEPT ![c] = n]
         /\ visits' = [visits EXCEPT ![c] = @ + 1]
    ELSE IF wg[n] = 0
    THEN /\ pc' = [pc EXCEPT ![n] = "done"]
         /\ cur' = [cur EXCEPT ![n] = Nil]
         /\ wg' = IF spawner[n] # Nil THEN [wg EXCEPT ![spawner[n]] = @ - 1] ELSE wg
         /\ UNCHANGED <<spawner, visits>>
    ELSE /\ pc' = [pc EXCEPT ![n] = "wait"]
         /\ cur' = [cur EXCEPT ![n] = Nil]
         /\ UNCHANGED <<wg, spawner, visits>>

\* html.Node.RemoveChild(c) on n = c.Parent, statement by statement:
\* if n.FirstChild == c { n.FirstChild = c.NextSibling }
RmFirstStmt(t, c) ==
    LET p == t[c].Parent
    IN  IF t[p].FirstChild = c THEN [t EXCEPT ![p].FirstChild = t[c].NextSibling] ELSE t

\* if c.NextSibling != nil { c.NextSibling.PrevSibling = c.PrevSibling }
RmNextPrevStmt(t, c) ==
    IF t[c].NextSibling # Nil
    THEN [t EXCEPT ![t[c].NextSibling].PrevSibling = t[c].PrevSibling]
    ELSE t

\* if n.LastChild == c { n.LastChild = c.PrevSibling }
RmLastStmt(t, c) ==
    LET p == t[c].Parent
    IN  IF t[p].LastChild = c THEN [t EXCEPT ![p].LastChild = t[c].PrevSibling] ELSE t

\* if c.PrevSibling != nil { c.PrevSibling.NextSibling = c.NextSibling }
RmPrevNextStmt(t, c) ==
    IF t[c].PrevSibling # Nil
    THEN [t EXCEPT ![t[c].PrevSibling].NextSibling = t[c].NextSibling]
    ELSE t

\* c.Parent = nil; c.PrevSibling = nil
RmParentPrevStmt(t, c) == [t EXCEPT ![c].Parent = Nil, ![c].PrevSibling = Nil]

\* c.NextSibling = nil
RmNextStmt(t, c) == [t EXCEPT ![c].NextSibling = Nil]

\* lines 84-147; for a style element the start of line 148,
\* node.Parent.RemoveChild(node); for any other node the loop initialisation
\* child := node.FirstChild of line 153
Visit(n) ==
    /\ pc[n] = "visit"
    /\ LET t == [tree EXCEPT ![n] = Rewritten(tree[n], input.Prefix, input.Id)]
       IN  IF IsStyleEl(tree[n])
           THEN /\ tree' = RmFirstStmt(t, n)
                /\ pc' = [pc EXCEPT ![n] = "rmNextPrev"]
                /\ UNCHANGED <<cur, wg, spawner, visits>>
           ELSE /\ tree' = t
                /\ LoopTo(n, tree[n].FirstChild)
    /\ UNCHANGED <<input, mainPc, out, htmlDoc, err, post>>

\* line 148 continued: the second statement of RemoveChild
RmNextPrev(c) ==
    /\ pc[c] = "rmNextPrev"
    /\ tree' = RmNextPrevStmt(tree, c)
    /\ pc' = [pc EXCEPT ![c] = "rmLast"]
    /\ UNCHANGED <<input, mainPc, cur, wg, spawner, visits, out, htmlDoc, err, post>>

\* the third statement of RemoveChild
RmLast(c) ==
    /\ pc[c] = "rmLast"
    /\ tree' = RmLastStmt(tree, c)
    /\ pc' = [pc EXCEPT ![c] = "rmPrevNext"]
    /\ UNCHANGED <<input, mainPc, cur, wg, spawner, visits, out, htmlDoc, err, post>>

\* the fourth statement of RemoveChild
RmPrevNext(c) ==
    /\ pc[c] = "rmPrevNext"
    /\ tree' = RmPrevNextStmt(tree, c)
    /\ pc' = [pc EXCEPT ![c] = "rmParentPrev"]
    /\ UNCHANGED <<input, mainPc, cur, wg, spawner, visits, out, htmlDoc, err, post>>

\* the fifth and sixth statements of RemoveChild
RmParentPrev(c) ==
    /\ pc[c] = "rmParentPrev"
    /\ tree' = RmParentPrevStmt(tree, c)
    /\ pc' = [pc EXCEPT ![c] = "rmNext"]
    /\ UNCHANGED <<input, mainPc, cur, wg, spawner, visits, out, htmlDoc, err, post>>

\* c.NextSibling = nil, the last statement of RemoveChild, then the loop
\* initialisation of line 153
RmNext(c) ==
    /\ pc[c] = "rmNext"
    /\ tree' = RmNextStmt(tree, c)
    /\ LoopTo(c, tree[c].FirstChild)
    /\ UNCHANGED <<input, mainPc, out, htmlDoc, err, post>>

\* line 153, loop step: child = child.NextSibling
Advance(n) ==
    /\ pc[n] = "advance"
    /\ LoopTo(n, tree[cur[n]].NextSibling)
    /\ UNCHANGED <<input, mainPc, tree, out, htmlDoc, err, post>>

\* line 160, wg.Wait() returns once every goroutine of the call has signalled
Return(n) ==
    /\ pc[n] = "wait"
    /\ wg[n] = 0
    /\ pc' = [pc EXCEPT ![n] = "done"]
    /\ wg' = IF spawner[n] # Nil THEN [wg EXCEPT ![spawner[n]] = @ - 1] ELSE wg
    /\ UNCHANGED <<input, mainPc, tree, cur, spawner, visits, out, htmlDoc, err, post>>

Next ==
    \/ Parse /\ UNCHANGED <<assetVars, frontmatterVars, indexVars, mergeVars, runVars>>
    \/ ParseFail /\ UNCHANGED <<assetVars, frontmatterVars, indexVars, mergeVars, runVars>>
    \/ Render /\ UNCHANGED <<assetVars, frontmatterVars, indexVars, mergeVars, runVars>>
    \/ RenderFail /\ UNCHANGED <<assetVars, frontmatterVars, indexVars, mergeVars, runVars>>
    \/ WritePost /\ UNCHANGED <<assetVars, frontmatterVars, indexVars, mergeVars, runVars>>
    \/ FrontmatterFail /\ UNCHANGED <<assetVars, frontmatterVars, indexVars, mergeVars, runVars>>
    \/ \E n \in DOMAIN pc : Visit(n) /\ UNCHANGED <<assetVars, frontmatterVars, indexVars, mergeVars, runVars>>
    \/ \E n \in DOMAIN pc : RmNextPrev(n) /\ UNCHANGED <<assetVars, frontmatterVars, indexVars, mergeVars, runVars>>
    \/ \E n \in DOMAIN pc : RmLast(n) /\ UNCHANGED <<assetVars, frontmatterVars, indexVars, mergeVars, runVars>>
    \/ \E n \in DOMAIN pc : RmPrevNext(n) /\ UNCHANGED <<assetVars, frontmatterVars, indexVars, mergeVars, runVars>>
    \/ \E n \in DOMAIN pc : RmParentPrev(n) /\ UNCHANGED <<assetVars, frontmatterVars, indexVars, mergeVars, runVars>>
    \/ \E n \in DOMAIN pc : RmNext(n) /\ UNCHANGED <<assetVars, frontmatterVars, indexVars, mergeVars, runVars>>
    \/ \E n \in DOMAIN pc : Advance(n) /\ UNCHANGED <<assetVars, frontmatterVars, indexVars, mergeVars, runVars>>
    \/ \E n \in DOMAIN pc : Return(n) /\ UNCHANGED <<assetVars, frontmatterVars, indexVars, mergeVars, runVars>>

Spec == Init /\ [][Next]_vars

TypeOK ==
    /\ input \in Inputs
    /\ mainPc \in {"start", "modify", "done", "written", "failed"}
    /\ tree # <<>> => DOMAIN tree = NodeIds(input)

\* no node gets a second modifyContent call
NoRevisit == \A n \in DOMAIN visits : visits[n] <= 1

(***************************************************************************)
(* Notions the properties below are stated with.                           *)
(***************************************************************************)
Finished == mainPc = "done"

\* the tree html.Parse built, before any rewrite
Parsed == ParseTree(input)

\* the nodes html.Render reaches from node c and its following siblings
RECURSIVE ReachList(_, _)
ReachList(t, c) ==
    IF c = Nil THEN {}
    ELSE {c} \cup ReachList(t, t[c].FirstChild) \cup ReachList(t, t[c].NextSibling)

InOutput(n) == n \in {1} \cup ReachList(tree, tree[1].FirstChild)

\* the value of the first attribute of nd with the given key
HasAttr(nd, key) == \E i \in 1..Len(nd.Attr) : nd.Attr[i].Key = key

AttrVal(nd, key) ==
    nd.Attr[CHOOSE i \in 1..Len(nd.Attr) :
                /\ nd.Attr[i].Key = key
                /\ \A j \in 1..(i - 1) : nd.Attr[j].Key # key].Val

\* the whole of RemoveChild(c) run without interruption
RemoveChild(t, c) ==
    RmNextStmt(RmParentPrevStmt(RmPrevNextStmt(RmLastStmt(
        RmNextPrevStmt(RmFirstStmt(t, c), c), c), c), c), c)

RECURSIVE RemoveAll(_, _)
RemoveAll(t, S) ==
    IF S = {} THEN t
    ELSE LET c == CHOOSE x \in S : \A y \in S : x <= y
         IN  RemoveAll(RemoveChild(t, c), S \ {c})

\* the result of the schedule in which every loop runs to its end before
\* any goroutine it started takes a step: every node is rewritten and every
\* style element is detached
AllVisitedTree(in) ==
    LET t0 == ParseTree(in)
        t1 == [n \in DOMAIN t0 |-> Rewritten(t0[n], in.Prefix, in.Id)]
    IN  RemoveAll(t1, {n \in DOMAIN t0 : IsStyleEl(t0[n])})

AllVisitedOut(in) == RenderNode(AllVisitedTree(in), 1)

\* the memory locations <<node, field>> the next step of n's call reads
Reads(n) ==
    LET p == tree[n].Parent
    IN  CASE pc[n] = "visit" ->
               {<<n, "Type">>, <<n, "Data">>, <<n, "Attr">>}
               \cup (IF IsStyleEl(tree[n])
                     THEN {<<n, "Parent">>, <<p, "FirstChild">>, <<n, "NextSibling">>}
                     ELSE {<<n, "FirstChild">>})
          [] pc[n] = "rmNextPrev" -> {<<n, "NextSibling">>, <<n, "PrevSibling">>}
          [] pc[n] = "rmLast" -> {<<n, "Parent">>, <<p, "LastChild">>, <<n, "PrevSibling">>}
          [] pc[n] = "rmPrevNext" -> {<<n, "PrevSibling">>, <<n, "NextSibling">>}
          [] pc[n] = "rmNext" -> {<<n, "FirstChild">>}
          [] pc[n] = "advance" -> {<<cur[n], "NextSibling">>}
          [] OTHER -> {}

\* the memory locations the next step of n's call writes
Writes(n) ==
    LET p == tree[n].Parent
    IN  CASE pc[n] = "visit" ->
               {<<n, "Data">>, <<n, "Attr">>}
               \cup (IF IsStyleEl(tree[n]) /\ tree[p].FirstChild = n
                     THEN {<<p, "FirstChild">>} ELSE {})
          [] pc[n] = "rmNextPrev" ->
               IF tree[n].NextSibling # Nil THEN {<<tree[n].NextSibling, "PrevSibling">>} ELSE {}
          [] pc[n] = "rmLast" ->
               IF tree[p].LastChild = n THEN {<<p, "LastChild">>} ELSE {}
          [] pc[n] = "rmPrevNext" ->
               IF tree[n].PrevSibling # Nil THEN {<<tree[n].PrevSibling, "NextSibling">>} ELSE {}
          [] pc[n] = "rmParentPrev" -> {<<n, "Parent">>, <<n, "PrevSibling">>}
          [] pc[n] = "rmNext" -> {<<n, "NextSibling">>}
          [] OTHER -> {}

\* two calls whose next steps are both enabled are not ordered by the go
\* statement or the WaitGroup; they contend when one writes what the other
\* reads or writes
Contend(n, m) ==
    /\ n # m
    /\ Writes(n) \cap (Reads(m) \cup Writes(m)) # {}

(***************************************************************************)
(* Properties of the Document Rewriter.                                    *)
(***************************************************************************)
\* C1: the rendered output is a function of the input document, identifier
\* and prefix alone, whatever the interleaving of the traversal goroutines:
\* every run ends with the output of the run in which all nodes are visited.
C1_OutputDeterministic == Finished => out = AllVisitedOut(input)

\* the all-visited output is itself produced by some schedule of an input
\* whose style element has a following sibling (so C1 fails between two runs)
C1_AllVisitedRun ==
    /\ Finished
    /\ input = Doc("", <<>>, <<>>, <<StyleEl, PlainP>>)
    /\ out = AllVisitedOut(input)

\* C2: no two concurrently running modifyContent calls contend on a field
\* of a node: no call's next write is to a location another call's next
\* step reads or writes.
C2_NoContention ==
    mainPc = "modify" => \A n \in DOMAIN pc : \A m \in DOMAIN pc : ~Contend(n, m)

\* C3: once WithFixedContent has succeeded the output contains no style
\* element.
C3_NoStyleElementInOutput ==
    Finished => \A i \in 1..Len(out) : out[i].Data # "style"

\* the nodes of the parsed input that are elements named data
InputElements(data) ==
    {n \in DOMAIN Parsed : Parsed[n].Type = "element" /\ Parsed[n].Data = data}

\* the heading one level deeper
Deeper == [h \in HeadingNames |->
    CASE h = "h1" -> "h2" [] h = "h2" -> "h3" [] h = "h3" -> "h4"
      [] h = "h4" -> "h5" [] h = "h5" -> "h6" [] h = "h6" -> "h7"]

\* C4: every heading h1..h6 of the parsed input ends as the heading one
\* level deeper (h6 as h7), and no other node's name changes.
C4_HeadingsOneDeeper ==
    Finished =>
        \A n \in DOMAIN Parsed :
            tree[n].Data = IF Parsed[n].Type = "element" /\ Parsed[n].Data \in HeadingNames
                           THEN Deeper[Parsed[n].Data]
                           ELSE Parsed[n].Data

IsTitleParagraph(nd) ==
    /\ nd.Type = "element"
    /\ nd.Data = "p"
    /\ HasAttr(nd, "class")
    /\ AttrVal(nd, "class") \in {"title", "subtitle"}

\* C5: every p whose class is title or subtitle, with or without a style
\* attribute in the input, is still in the output under its parent and has a
\* style value that ends with ";visibility:hidden;display:none".
C5_TitleHiddenNotRemoved ==
    Finished =>
        \A n \in DOMAIN Parsed :
            IsTitleParagraph(Parsed[n]) =>
                /\ InOutput(n)
                /\ tree[n].Parent = Parsed[n].Parent
                /\ HasAttr(tree[n], "style")
                /\ HasSuffix(AttrVal(tree[n], "style"), ";" \o HideStyle)

\* C6: when the body element of the input has a style attribute, the body
\* element of the output has an empty style value.
C6_BodyStyleEmpty ==
    Finished =>
        \A n \in InputElements("body") :
            HasAttr(Parsed[n], "style") =>
                /\ InOutput(n)
                /\ tree[n].Data = "body"
                /\ \A i \in 1..Len(tree[n].Attr) :
                       tree[n].Attr[i].Key = "style" => tree[n].Attr[i].Val = ""

\* C6 witness: a finished rewrite of a document whose body style held a
\* declaration the color/font stripping keeps
C6_Witness ==
    /\ Finished
    /\ HasAttr(Parsed[4], "style")
    /\ AttrVal(Parsed[4], "style") = "margin:0"
    /\ StripStyle(AttrVal(Parsed[4], "style")) # ""
    /\ AttrVal(tree[4], "style") = ""

\* the declarations of a style value: its non-empty pieces between ";"
Decls(val) == SelectSeq(Split(val, ";"), LAMBDA d : d # "")

\* the property name of a declaration
DeclName(d) ==
    LET k == IndexFrom(d, ":", 1)
    IN  IF k = 0 THEN d ELSE SubSeq(d, 1, k - 1)

IsColorOrFontDecl(d) == DeclName(d) = "color" \/ HasPrefix(DeclName(d), "font-")

\* C7: no element that carried a style attribute keeps a color or font-*
\* declaration in its style value.
C7_NoColorOrFontLeft ==
    Finished =>
        \A n \in DOMAIN Parsed :
            \A i \in 1..Len(Parsed[n].Attr) :
                Parsed[n].Attr[i].Key = "style" =>
                    \A k \in 1..Len(Decls(tree[n].Attr[i].Val)) :
                        ~IsColorOrFontDecl(Decls(tree[n].Attr[i].Val)[k])

HideDecls == <<"visibility:hidden", "display:none">>

\* is a a subsequence of b
RECURSIVE IsSubseq(_, _)
IsSubseq(a, b) ==
    IF a = <<>> THEN TRUE
    ELSE IF b = <<>> THEN FALSE
    ELSE IF Head(a) = Head(b) THEN IsSubseq(Tail(a), Tail(b))
    ELSE IsSubseq(a, Tail(b))

\* C8: outside body, the declarations of the input style value other than
\* color and font-* are all in the rewritten value, unchanged and in order,
\* and the rewritten value holds nothing but declarations of the input and
\* the hide directive.
C8_OtherDeclarationsSurvive ==
    Finished =>
        \A n \in DOMAIN Parsed :
            \A i \in 1..Len(Parsed[n].Attr) :
                Parsed[n].Attr[i].Key = "style" /\ Parsed[n].Data # "body" =>
                    LET before == Decls(Parsed[n].Attr[i].Val)
                        after == Decls(tree[n].Attr[i].Val)
                    IN  /\ IsSubseq(SelectSeq(before, LAMBDA d : ~IsColorOrFontDecl(d)), after)
                        /\ \A k \in 1..Len(after) :
                               \/ \E j \in 1..Len(before) : after[k] = before[j]
                               \/ \E j \in 1..Len(HideDecls) : after[k] = HideDecls[j]

\* C9: every img src of the input ends as "/" followed by
\* {prefix/}{id}-{base name of src}; images/pic.png of doc123 ends as
\* /doc123-pic.png without prefix and /assets/doc123-pic.png with prefix
\* assets.
C9_ImageSrcNormalized ==
    Finished =>
        \A n \in InputElements("img") :
            \A i \in 1..Len(Parsed[n].Attr) :
                Parsed[n].Attr[i].Key = "src" =>
                    /\ tree[n].Attr[i].Val =
                           "/" \o NormalizedAssetPath(input.Prefix, input.Id, Parsed[n].Attr[i].Val)
                    /\ Parsed[n].Attr[i].Val = "images/pic.png" /\ input.Id = "doc123" =>
                           tree[n].Attr[i].Val = IF input.Prefix = "" THEN "/doc123-pic.png"
                                                 ELSE "/assets/doc123-pic.png"

\* C10: an anchor's href that begins with the redirect prefix, parses and
\* carries a (non-empty) q parameter ends as that parameter's decoded value;
\* any other href is unchanged.
C10_RedirectUnwrapped ==
    Finished =>
        \A n \in InputElements("a") :
            \A i \in 1..Len(Parsed[n].Attr) :
                Parsed[n].Attr[i].Key = "href" =>
                    LET h == Parsed[n].Attr[i].Val
                    IN  tree[n].Attr[i].Val =
                            IF HasPrefix(h, googleUrlPrefix) /\ UrlParseOk(h) /\ QueryGet(h, "q") # ""
                            THEN QueryGet(h, "q")
                            ELSE h

(***************************************************************************)
(* The orchestrator's png case, cmd/docblog/main.go lines 81-88: every png  *)
(* file of every exported document is written under AssetsOutputPath at    *)
(* its normalized path.                                                    *)
(***************************************************************************)
\* document identifiers as the listing reports them (letters, digits, - and _)
IdInputs == {"doc1", "doc1-2", "doc2"}

\* names of the png files of an export archive
PngNames == {"images/image1.png", "images/2-image1.png", "image1.png", "images/image2.png"}

\* the png files of one exported document: one or two distinct names
PngsOf(id) ==
    {<<[Id |-> id, Name |-> a]>> : a \in PngNames}
        \cup {<<[Id |-> id, Name |-> n[1]], [Id |-> id, Name |-> n[2]]>> :
                  n \in {m \in PngNames \X PngNames : m[1] # m[2]}}

\* the exports of two documents with distinct identifiers, in listing order
ExportInputs ==
    UNION {{x \o y : x \in PngsOf(ids[1]), y \in PngsOf(ids[2])} :
              ids \in {p \in IdInputs \X IdInputs : p[1] # p[2]}}

InitAssets ==
    /\ RewriterIdle
    /\ FrontmatterIdle
    /\ IndexIdle
    /\ MergeIdle
    /\ RunIdle
    /\ AssetsPathPrefix \in {"", "assets"}
    /\ unzippedFiles \in ExportInputs
    /\ assetFiles = <<>>

\* main.go lines 81-88: the next png file is written to its normalized path
\* (assetFiles keeps every write a path received, the last one being the
\* file's content)
WritePng ==
    /\ unzippedFiles # <<>>
    /\ LET unzippedFile == Head(unzippedFiles)
           modifiedName == NormalizedAssetPath(AssetsPathPrefix, unzippedFile.Id, unzippedFile.Name)
       IN  assetFiles' =
               [p \in DOMAIN assetFiles \cup {modifiedName} |->
                   IF p = modifiedName
                   THEN (IF p \in DOMAIN assetFiles THEN assetFiles[p] ELSE <<>>)
                            \o <<unzippedFile>>
                   ELSE assetFiles[p]]
    /\ unzippedFiles' = Tail(unzippedFiles)
    /\ UNCHANGED AssetsPathPrefix

NextAssets ==
    \/ WritePng /\ UNCHANGED <<rewriterVars, frontmatterVars, indexVars, mergeVars, runVars>>

SpecAssets == InitAssets /\ [][NextAssets]_vars

C12_FailureReturnsInput ==
    mainPc = "failed" /\ err = "failed to fix assets" =>
        /\ htmlDoc = NewHtmlDoc(input)
        /\ post = <<>>

\* a render failure that left part of the output in the buffer
C12_Witness ==
    /\ mainPc = "failed"
    /\ err = "failed to fix assets"
    /\ out # <<>>
    /\ htmlDoc.Content # <<>>

(***************************************************************************)
(* time.Time values, as far as the program uses them: a UTC instant given  *)
(* by its day, counted from GoogleSheetEpoch0 (30 December 1899), and the  *)
(* second of that day.                                                     *)
(***************************************************************************)
\* days from GoogleSheetEpoch0 to 1 January 1970 (drive_service.go line 57)
UnixEpochDay == 25569

\* time.Time{}: 1 January of year 1, 00:00:00 UTC
ZeroTime == [Day |-> -693593, Sec |-> 0]

IsZero(t) == t = ZeroTime

\* time.Date(y, m, d, 0, 0, 0, 0, time.UTC) as a day number
DayOfDate(y, m, d) ==
    LET yy  == IF m <= 2 THEN y - 1 ELSE y
        era == yy \div 400
        yoe == yy - era * 400
        mp  == (m + 9) % 12
        doy == (153 * mp + 2) \div 5 + d - 1
        doe == yoe * 365 + yoe \div 4 - yoe \div 100 + doy
    IN  era * 146097 + doe - 719468 + UnixEpochDay

\* Time.Date(): year, month and day of month of a day number
DateOfDay(day) ==
    LET z   == day - UnixEpochDay + 719468
        era == z \div 146097
        doe == z - era * 146097
        yoe == (doe - doe \div 1460 + doe \div 36524 - doe \div 146096) \div 365
        doy == doe - (365 * yoe + yoe \div 4 - yoe \div 100)
        mp  == (5 * doy + 2) \div 153
        d   == doy - (153 * mp + 2) \div 5 + 1
        m   == IF mp < 10 THEN mp + 3 ELSE mp - 9
        y   == yoe + era * 400 + (IF m <= 2 THEN 1 ELSE 0)
    IN  [Year |-> y, Month |-> m, Day |-> d]

DaysIn(y, m) ==
    IF m = 2
    THEN (IF y % 4 = 0 /\ (y % 100 # 0 \/ y % 400 = 0) THEN 29 ELSE 28)
    ELSE IF m \in {4, 6, 9, 11} THEN 30 ELSE 31

DigitChar(d) == SubSeq("0123456789", d + 1, d + 1)

\* a number of 0..9999 in exactly w digits (the layouts' 02, 01, 2006, 15, 04, 05)
Pad(n, w) ==
    IF w = 2 THEN DigitChar((n \div 10) % 10) \o DigitChar(n % 10)
    ELSE DigitChar((n \div 1000) % 10) \o DigitChar((n \div 100) % 10)
             \o DigitChar((n \div 10) % 10) \o DigitChar(n % 10)

IsDigits(s) == \A i \in 1..Len(s) : SubSeq(s, i, i) \in Digits

DigitVal(c) == CHOOSE d \in 0..9 : DigitChar(d) = c

RECURSIVE Atoi(_)
Atoi(s) == IF s = "" THEN 0 ELSE 10 * Atoi(SubSeq(s, 1, Len(s) - 1)) + DigitVal(SubSeq(s, Len(s), Len(s)))

(***************************************************************************)
(* HtmlDoc.WithFrontmatter, part_006 lines 39-56, on the bytes of the      *)
(* document.                                                               *)
(***************************************************************************)
\* Time.Format(time.RFC3339Nano) of a UTC instant with whole seconds
FormatRFC3339(t) ==
    LET c == DateOfDay(t.Day)
    IN  Pad(c.Year, 4) \o "-" \o Pad(c.Month, 2) \o "-" \o Pad(c.Day, 2) \o "T"
            \o Pad(t.Sec \div 3600, 2) \o ":" \o Pad((t.Sec \div 60) % 60, 2) \o ":"
            \o Pad(t.Sec % 60, 2) \o "Z"

\* plain scalars that yaml resolves to something other than a string
YamlNonStrings == {"", "~", "null", "true", "false", "yes", "no", "on", "off"}

\* yaml.Marshal of a string of letters, digits and single inner blanks: plain
\* when it resolves to a string, double-quoted otherwise
YamlString(s) ==
    IF s \in YamlNonStrings \/ IsDigits(s) THEN "\"" \o s \o "\"" ELSE s

\* yaml.Marshal(doc.GoogleDocMetadata): the fields in declaration order under
\* their yaml names, ModifiedTime left out (drive_service.go lines 75-82)
YamlMarshal(m) ==
    "date: " \o FormatRFC3339(m.CreatedTime) \o "\n"
        \o "excerpt: " \o YamlString(m.Description) \o "\n"
        \o "google_doc_id: " \o YamlString(m.Id) \o "\n"
        \o "title: " \o YamlString(m.Name) \o "\n"

\* a mutant of lines 42-53: the block is put behind the content
FrontmatterBehindContent(d) ==
    d.Content \o "---\n" \o "layout: post\n" \o YamlMarshal(d) \o "---\n"

\* lines 42-53: the new Content
FrontmatterContent(d) ==
    "---\n" \o "layout: post\n" \o YamlMarshal(d) \o "---\n" \o d.Content

TimeInputs == {[Day |-> DayOfDate(2024, 1, 2), Sec |-> 0],
               [Day |-> DayOfDate(2023, 12, 31), Sec |-> 86399],
               [Day |-> DayOfDate(2024, 2, 29), Sec |-> 43200]}

ContentInputs == {"", "<html><head></head><body></body></html>",
                  "<html><head></head><body><h2>Hi</h2></body></html>",
                  "---\nlayout: post\n---\n<p>x</p>"}

FrontmatterInputs ==
    [Id : {"abc", "doc123"}, Name : {"Hello", "Hello World", "2024"},
     Description : {"", "A post", "true"}, CreatedTime : TimeInputs \cup {ZeroTime},
     ModifiedTime : {[Day |-> DayOfDate(2024, 3, 1), Sec |-> 0]},
     Content : ContentInputs]

InitFrontmatter ==
    /\ RewriterIdle
    /\ AssetsIdle
    /\ IndexIdle
    /\ MergeIdle
    /\ RunIdle
    /\ doc \in FrontmatterInputs
    /\ returned = <<>>

\* lines 41-56 with yaml.Marshal succeeding
WithFrontmatter ==
    /\ returned = <<>>
    /\ returned' = [doc |-> [doc EXCEPT !.Content = FrontmatterContent(doc)], err |-> ""]
    /\ UNCHANGED doc

\* lines 45-48: yaml.Marshal returns an error
WithFrontmatterFail ==
    /\ returned = <<>>
    /\ returned' = [doc |-> doc, err |-> "yaml"]
    /\ UNCHANGED doc

NextFrontmatter ==
    \/ WithFrontmatter /\ UNCHANGED <<rewriterVars, assetVars, indexVars, mergeVars, runVars>>
    \/ WithFrontmatterFail /\ UNCHANGED <<rewriterVars, assetVars, indexVars, mergeVars, runVars>>

SpecFrontmatter == InitFrontmatter /\ [][NextFrontmatter]_vars

\* C13: a successful WithFrontmatter returns the opening delimiter, the
\* serialized metadata block (layout directive and the yaml fields), the
\* closing delimiter and then the content bytes as they were: the block
\* starts at byte 0 and the input content is a suffix of the output; a
\* failed one returns the error and the content as it was.
C13_FrontmatterThenContent ==
    returned # <<>> =>
        IF returned.err = ""
        THEN LET block == SubSeq(returned.doc.Content, 1,
                                 Len(returned.doc.Content) - Len(doc.Content))
             IN  /\ returned.doc.Content = block \o doc.Content
                 /\ HasPrefix(block, "---\nlayout: post\ndate: ")
                 /\ HasSuffix(block, "\n---\n")
                 /\ block = "---\n" \o "layout: post\n" \o YamlMarshal(doc) \o "---\n"
                 /\ [returned.doc EXCEPT !.Content = doc.Content] = doc
        ELSE returned.doc = doc

\* frontmatter put before a non-empty content
C13_Witness ==
    /\ returned # <<>>
    /\ returned.err = ""
    /\ doc.Content # ""
    /\ doc.Description = ""

(***************************************************************************)
(* The index sheet, pkg/drive/drive_service.go.  A grid is the part of a   *)
(* sheets.Spreadsheet the program uses: the grid size, the pixel widths of *)
(* the columns and the rows, a row being the FormattedValue of its cells.  *)
(***************************************************************************)
\* lines 47-53
GoogleSheetIndexColumnMetadata ==
    <<[name |-> "Id", pixelWidth |-> 350],
      [name |-> "Name", pixelWidth |-> 300],
      [name |-> "Date", pixelWidth |-> 100],
      [name |-> "Last modified", pixelWidth |-> 100],
      [name |-> "Description", pixelWidth |-> 800]>>

NumColumns == Len(GoogleSheetIndexColumnMetadata)

\* lines 444-452
getColumnMetadata == [i \in 1..NumColumns |-> GoogleSheetIndexColumnMetadata[i].pixelWidth]

\* lines 454-469: every header cell holds the address of the name field of the
\* loop variable.  With one variable per iteration (Go 1.22 loop semantics)
\* the cells read the five names; with one variable per loop (earlier Go, the
\* toolchain flake.nix pins) every cell reads the name of the last column.
getHeaders(perIteration) ==
    [i \in 1..NumColumns |->
        IF perIteration THEN GoogleSheetIndexColumnMetadata[i].name
        ELSE GoogleSheetIndexColumnMetadata[NumColumns].name]

\* lines 403-421: the spreadsheet that Spreadsheets.Create is asked for
NewIndexSheet(perIteration) ==
    [ColumnCount |-> NumColumns,
     RowCount |-> 1,
     ColumnMetadata |-> getColumnMetadata,
     RowData |-> <<getHeaders(perIteration)>>]

\* time.Parse(GoogleSheetDayFormat, s) succeeds: dd/mm/yyyy in digits, a
\* month of 1..12 and a day of that month
ParseDayOk(s) ==
    /\ Len(s) = 10
    /\ SubSeq(s, 3, 3) = "/"
    /\ SubSeq(s, 6, 6) = "/"
    /\ IsDigits(SubSeq(s, 1, 2)) /\ IsDigits(SubSeq(s, 4, 5)) /\ IsDigits(SubSeq(s, 7, 10))
    /\ Atoi(SubSeq(s, 4, 5)) \in 1..12
    /\ Atoi(SubSeq(s, 1, 2)) \in 1..DaysIn(Atoi(SubSeq(s, 7, 10)), Atoi(SubSeq(s, 4, 5)))

\* the time.Time that time.Parse(GoogleSheetDayFormat, s) returns
ParseDay(s) ==
    [Day |-> DayOfDate(Atoi(SubSeq(s, 7, 10)), Atoi(SubSeq(s, 4, 5)), Atoi(SubSeq(s, 1, 2))),
     Sec |-> 0]

\* GoogleDocMetadata{}
EmptyMetadata ==
    [Id |-> "", Name |-> "", Description |-> "", CreatedTime |-> ZeroTime, ModifiedTime |-> ZeroTime]

\* lines 318-345.  row.Values[2] and row.Values[3] are read before anything
\* is stored: on a row of fewer than four cells the index expression panics.
ParseRowData(row) ==
    IF Len(row) < 4
    THEN [panic |-> TRUE, m |-> EmptyMetadata, errors |-> <<>>]
    ELSE [panic |-> FALSE,
          m |-> [Id |-> row[1],
                 Name |-> row[2],
                 CreatedTime |-> IF ParseDayOk(row[3]) THEN ParseDay(row[3]) ELSE ZeroTime,
                 ModifiedTime |-> IF ParseDayOk(row[4]) THEN ParseDay(row[4]) ELSE ZeroTime,
                 Description |-> IF Len(row) >= NumColumns THEN row[5] ELSE ""],
          errors |-> (IF ParseDayOk(row[3]) THEN <<>> ELSE <<"error parsing created date">>)
                       \o (IF ParseDayOk(row[4]) THEN <<>> ELSE <<"error parsing modified date">>)
                       \o (IF Len(row) >= NumColumns THEN <<>> ELSE <<"missing description value">>)]

\* Time.Sub(GoogleSheetEpoch0) is a Duration, an int64 of nanoseconds that
\* saturates at about 106751.99 days either way
MaxDurationDay == 106751

DaysSinceEpoch0(t) ==
    IF t.Day > MaxDurationDay THEN [Day |-> MaxDurationDay, Sec |-> 85636]
    ELSE IF t.Day < -MaxDurationDay - 1 THEN [Day |-> -MaxDurationDay - 1, Sec |-> 763]
    ELSE t

\* a mutant of lines 281-284: the creation date is counted from 1 January
\* 1970 instead of GoogleSheetEpoch0
ToRowDataFromUnixEpoch(m) ==
    LET docUrl == "https://docs.google.com/document/d/" \o m.Id
        hyperlink == "=HYPERLINK(\"" \o docUrl \o "\", \"" \o m.Id \o "\")"
    IN  <<[FormulaValue |-> hyperlink],
          [StringValue |-> m.Name],
          [NumberValue |-> [DaysSinceEpoch0(m.CreatedTime) EXCEPT !.Day = @ - UnixEpochDay]],
          [NumberValue |-> DaysSinceEpoch0(m.ModifiedTime)],
          [StringValue |-> m.Description]>>

\* lines 278-316: the UserEnteredValue of the five cells
ToRowData(m) ==
    LET docUrl == "https://docs.google.com/document/d/" \o m.Id
        hyperlink == "=HYPERLINK(\"" \o docUrl \o "\", \"" \o m.Id \o "\")"
    IN  <<[FormulaValue |-> hyperlink],
          [StringValue |-> m.Name],
          [NumberValue |-> DaysSinceEpoch0(m.CreatedTime)],
          [NumberValue |-> DaysSinceEpoch0(m.ModifiedTime)],
          [StringValue |-> m.Description]>>

\* the FormattedValue the sheet shows for a cell written by ToRowData: the
\* label of a HYPERLINK formula, a string as it is, a number under
\* CellDateFormat (lines 58-64) as the dd/mm/yyyy of its whole days
FormattedValue(cell) ==
    IF "FormulaValue" \in DOMAIN cell
    THEN LET f == cell.FormulaValue
             k == LastIndexFrom(SubSeq(f, 1, Len(f) - 2), "\"", Len(f) - 2)
         IN  SubSeq(f, k + 1, Len(f) - 2)
    ELSE IF "StringValue" \in DOMAIN cell THEN cell.StringValue
    ELSE LET c == DateOfDay(cell.NumberValue.Day)
         IN  Pad(c.Day, 2) \o "/" \o Pad(c.Month, 2) \o "/" \o Pad(c.Year, 4)

\* the sheet after the UpdateSheetProperties request of lines 198-210: the
\* grid has rowCount rows and columnCount columns, what lay outside is gone
UpdateSheetProperties(grid, rowCount, columnCount) ==
    LET kept == IF Len(grid.RowData) <= rowCount THEN grid.RowData
                ELSE SubSeq(grid.RowData, 1, rowCount)
    IN  [grid EXCEPT
            !.RowCount = rowCount,
            !.ColumnCount = columnCount,
            !.ColumnMetadata = [i \in 1..columnCount |->
                                   IF i <= Len(@) THEN @[i] ELSE 100],
            !.RowData = [i \in 1..Len(kept) |->
                            IF Len(kept[i]) <= columnCount THEN kept[i]
                            ELSE SubSeq(kept[i], 1, columnCount)]]

\* the sheet after the UpdateCells request of lines 212-225: the rows are
\* stored from row index 1, column index 0
UpdateCells(grid, rows) ==
    LET n == IF Len(grid.RowData) >= 1 + Len(rows) THEN Len(grid.RowData) ELSE 1 + Len(rows)
    IN  [grid EXCEPT
            !.RowData = [i \in 1..n |->
                            IF i >= 2 /\ i - 1 <= Len(rows)
                            THEN [j \in 1..Len(rows[i - 1]) |-> FormattedValue(rows[i - 1][j])]
                            ELSE IF i <= Len(grid.RowData) THEN grid.RowData[i]
                            ELSE <<>>]]

\* a mutant of lines 198-233: the size of the grid is left as it was
BatchUpdateWithoutResize(grid, rows) ==
    IF rows # <<>> THEN UpdateCells(grid, rows) ELSE grid

\* lines 198-233: the two requests of the batch; the second only for rows != nil
BatchUpdate(grid, rows) ==
    IF rows # <<>>
    THEN UpdateCells(UpdateSheetProperties(grid, 1 + Len(rows), NumColumns), rows)
    ELSE UpdateSheetProperties(grid, 1 + Len(rows), NumColumns)

\* the id the Sheets service gives the next spreadsheet
NewFileId == 1 + Cardinality(DOMAIN spreadsheets)

\* lines 387-442: the outcome of getOrCreateIndexSheet in the current state:
\* the error, the file id of the sheet, the folder and the spreadsheets
\* afterwards, and the requests sent
getOrCreateIndexSheet ==
    IF Cardinality(driveFiles) > 1
    THEN [err |-> "multiple index sheets found", id |-> 0,
          driveFiles |-> driveFiles, spreadsheets |-> spreadsheets,
          calls |-> <<[api |-> "Files.List", id |-> 0]>>]
    ELSE IF driveFiles = {}
    THEN [err |-> "", id |-> NewFileId,
          driveFiles |-> {NewFileId},
          spreadsheets |-> (NewFileId :> NewIndexSheet(loopVarPerIteration)) @@ spreadsheets,
          calls |-> <<[api |-> "Files.List", id |-> 0],
                      [api |-> "Spreadsheets.Create", id |-> NewFileId],
                      [api |-> "Files.Update", id |-> NewFileId],
                      [api |-> "Spreadsheets.Get", id |-> NewFileId]>>]
    ELSE LET id == CHOOSE f \in driveFiles : TRUE
         IN  [err |-> "", id |-> id,
              driveFiles |-> driveFiles, spreadsheets |-> spreadsheets,
              calls |-> <<[api |-> "Files.List", id |-> 0],
                          [api |-> "Spreadsheets.Get", id |-> id]>>]

\* lines 166-179: the loop over the data rows; a panic of ParseRowData ends
\* the program, nothing is returned
RECURSIVE ReadRows(_, _, _)
ReadRows(rows, output, errors) ==
    IF rows = <<>> THEN [panic |-> FALSE, output |-> output, errors |-> errors]
    ELSE LET r == ParseRowData(Head(rows))
         IN  IF r.panic THEN [panic |-> TRUE, output |-> <<>>, errors |-> errors]
             ELSE ReadRows(Tail(rows), (r.m.Id :> r.m) @@ output,
                           IF r.errors = <<>> THEN errors
                           ELSE Append(errors, [Id |-> r.m.Id, errs |-> r.errors]))

MaxOps == 2

\* the operations started so far: each begins with one Files.List
OpsDone == Cardinality({i \in 1..Len(calls) : calls[i].api = "Files.List"})

\* lines 157-180
GetIndexSheet ==
    /\ OpsDone < MaxOps
    /\ LET sheet == getOrCreateIndexSheet
       IN  /\ driveFiles' = sheet.driveFiles
           /\ spreadsheets' = sheet.spreadsheets
           /\ calls' = calls \o sheet.calls
           /\ result' =
                  IF sheet.err # ""
                  THEN [op |-> "GetIndexSheet", err |-> sheet.err, panic |-> FALSE,
                        output |-> <<>>, errors |-> <<>>]
                  ELSE LET read == ReadRows(Tail(sheet.spreadsheets[sheet.id].RowData), <<>>, <<>>)
                       IN  [op |-> "GetIndexSheet", err |-> "", panic |-> read.panic,
                            output |-> read.output, errors |-> read.errors]
    /\ UNCHANGED <<loopVarPerIteration, filesMetadata>>

\* lines 184-234
UpdateIndexMetadata(metadata) ==
    /\ OpsDone < MaxOps
    /\ LET sheet == getOrCreateIndexSheet
           rows == [i \in 1..Len(metadata) |-> ToRowData(metadata[i])]
       IN  /\ driveFiles' = sheet.driveFiles
           /\ IF sheet.err # ""
              THEN /\ spreadsheets' = sheet.spreadsheets
                   /\ calls' = calls \o sheet.calls
              ELSE /\ spreadsheets' =
                          [sheet.spreadsheets EXCEPT ![sheet.id] = BatchUpdate(@, rows)]
                   /\ calls' = calls \o sheet.calls
                                    \o <<[api |-> "Spreadsheets.BatchUpdate", id |-> sheet.id]>>
           /\ result' = [op |-> "UpdateIndexMetadata", err |-> sheet.err, panic |-> FALSE,
                         output |-> <<>>, errors |-> <<>>]
    /\ filesMetadata' = metadata
    /\ UNCHANGED loopVarPerIteration

\* data rows as an operator of the sheet may leave them: zero to six cells,
\* dates in and out of the dd/mm/yyyy form
RowInputs ==
    {<<>>,
     <<"doc1">>,
     <<"doc1", "Hello", "02/01/2024">>,
     <<"doc1", "Hello", "02/01/2024", "03/01/2024">>,
     <<"doc1", "Hello", "02/01/2024", "03/01/2024", "A post">>,
     <<"doc1", "Hello again", "05/01/2024", "06/01/2024", "Edited post">>,
     <<"doc2", "World", "2024-01-02", "", "Edited">>,
     <<"doc2", "", "31/02/2024", "03/01/2024", "">>,
     <<"doc3", "Third", "29/02/2024", "01/03/2024", "x", "note">>}

MaxRows == 2

RECURSIVE RowSeqs(_)
RowSeqs(n) ==
    IF n = 0 THEN {<<>>}
    ELSE {Append(p[1], p[2]) : p \in RowSeqs(n - 1) \X RowInputs}

\* an index sheet of an earlier run with the data rows an operator left
GridOf(rows, perIteration) ==
    LET columns == IF \E i \in 1..Len(rows) : Len(rows[i]) > NumColumns
                   THEN NumColumns + 1 ELSE NumColumns
    IN  [ColumnCount |-> columns,
         RowCount |-> 1 + Len(rows),
         ColumnMetadata |-> [i \in 1..columns |->
                                IF i <= NumColumns THEN getColumnMetadata[i] ELSE 100],
         RowData |-> <<getHeaders(perIteration)>> \o rows]

GridInputs(perIteration) ==
    {GridOf(rows, perIteration) : rows \in UNION {RowSeqs(n) : n \in 0..MaxRows}}

\* records as ListGoogleDocs and the merge leave them
RecordInputs ==
    {[Id |-> "doc1", Name |-> "Hello", Description |-> "A post",
      CreatedTime |-> [Day |-> DayOfDate(2024, 1, 2), Sec |-> 0],
      ModifiedTime |-> [Day |-> DayOfDate(2024, 3, 1), Sec |-> 3600]],
     [Id |-> "doc1", Name |-> "Hello", Description |-> "",
      CreatedTime |-> [Day |-> DayOfDate(2023, 12, 31), Sec |-> 86399],
      ModifiedTime |-> [Day |-> DayOfDate(2024, 1, 1), Sec |-> 1]],
     [Id |-> "doc2", Name |-> "World", Description |-> "",
      CreatedTime |-> [Day |-> DayOfDate(2024, 2, 29), Sec |-> 43200],
      ModifiedTime |-> [Day |-> DayOfDate(2024, 2, 29), Sec |-> 43200]],
     [Id |-> "doc2", Name |-> "", Description |-> "Second post",
      CreatedTime |-> [Day |-> DayOfDate(1999, 12, 31), Sec |-> 0],
      ModifiedTime |-> [Day |-> DayOfDate(2000, 1, 1), Sec |-> 0]],
     [Id |-> "doc3", Name |-> "Third", Description |-> "x",
      CreatedTime |-> [Day |-> DayOfDate(2024, 1, 2), Sec |-> 0],
      ModifiedTime |-> [Day |-> DayOfDate(2024, 1, 2), Sec |-> 0]]}

MaxRecords == 2

\* lists of n records with distinct identifiers
RECURSIVE RecordSeqs(_)
RecordSeqs(n) ==
    IF n = 0 THEN {<<>>}
    ELSE {Append(p[1], p[2]) :
             p \in {q \in RecordSeqs(n - 1) \X RecordInputs :
                        \A i \in 1..Len(q[1]) : q[1][i].Id # q[2].Id}}

MetadataInputs == UNION {RecordSeqs(n) : n \in 0..MaxRecords}

InitIndex ==
    /\ RewriterIdle
    /\ AssetsIdle
    /\ FrontmatterIdle
    /\ MergeIdle
    /\ RunIdle
    /\ loopVarPerIteration \in BOOLEAN
    /\ \/ driveFiles = {} /\ spreadsheets = <<>>
       \/ driveFiles = {1} /\ \E g \in GridInputs(loopVarPerIteration) : spreadsheets = (1 :> g)
       \/ /\ driveFiles = {1, 2}
          /\ \E rows \in RowSeqs(1) :
                 spreadsheets = (1 :> GridOf(rows, loopVarPerIteration))
                                    @@ (2 :> GridOf(<<>>, loopVarPerIteration))
    /\ calls = <<>>
    /\ filesMetadata = <<>>
    /\ result = <<>>

NextIndex ==
    \/ GetIndexSheet /\ UNCHANGED <<rewriterVars, assetVars, frontmatterVars, mergeVars, runVars>>
    \/ \E metadata \in MetadataInputs :
           UpdateIndexMetadata(metadata) /\ UNCHANGED <<rewriterVars, assetVars, frontmatterVars, mergeVars, runVars>>

SpecIndex == InitIndex /\ [][NextIndex]_vars

\* the requests an operation added to calls
NewCalls == SubSeq(calls', Len(calls) + 1, Len(calls'))

\* C14: an operation on the index sheet finds it or creates it.  With exactly
\* one sheet named index in the folder that sheet is the one used; with none,
\* one sheet is created with the header row Id, Name, Date, Last modified,
\* Description and the column widths 350, 300, 100, 100, 800 and put in the
\* folder; with more than one the operation returns an error and has
\* created, read and modified no sheet.
C14_LocateOrCreate ==
    [][calls' # calls =>
          /\ Cardinality(driveFiles) = 1 =>
                 /\ result'.err = ""
                 /\ driveFiles' = driveFiles
                 /\ DOMAIN spreadsheets' = DOMAIN spreadsheets
                 /\ \E f \in driveFiles : NewCalls[2] = [api |-> "Spreadsheets.Get", id |-> f]
          /\ driveFiles = {} =>
                 /\ result'.err = ""
                 /\ \E f \in DOMAIN spreadsheets' \ DOMAIN spreadsheets :
                        /\ driveFiles' = {f}
                        /\ DOMAIN spreadsheets' = DOMAIN spreadsheets \cup {f}
                        /\ spreadsheets'[f].RowData[1] =
                               <<"Id", "Name", "Date", "Last modified", "Description">>
                        /\ spreadsheets'[f].ColumnMetadata = <<350, 300, 100, 100, 800>>
          /\ Cardinality(driveFiles) > 1 =>
                 /\ result'.err # ""
                 /\ driveFiles' = driveFiles
                 /\ spreadsheets' = spreadsheets
                 /\ \A i \in 1..Len(NewCalls) : NewCalls[i].api = "Files.List"]_vars

\* the data rows of the index sheet of the folder
DataRows == LET f == CHOOSE g \in driveFiles : TRUE IN Tail(spreadsheets[f].RowData)

\* the cell of a row at column index k (from 0), "" when the row is shorter
CellAt(row, k) == IF k + 1 <= Len(row) THEN row[k + 1] ELSE ""

\* C15: a GetIndexSheet that obtained the sheet returns, whatever the data
\* rows hold: every row, of zero to column-count cells and with any text in
\* its date cells, yields a record under its identifier with the cells that
\* were present; a row lacking only the description cell is reported with an
\* error and still yields identifier, title and both dates.
C15_ReadAllNeverAborts ==
    result # <<>> /\ result.op = "GetIndexSheet" /\ result.err = "" =>
        /\ ~result.panic
        /\ \A i \in 1..Len(DataRows) : CellAt(DataRows[i], 0) \in DOMAIN result.output
        /\ \A id \in DOMAIN result.output :
               \E i \in 1..Len(DataRows) :
                   LET row == DataRows[i]
                       m == result.output[id]
                   IN  /\ CellAt(row, 0) = id
                       /\ m.Id = id
                       /\ m.Name = CellAt(row, 1)
                       /\ m.Description = CellAt(row, 4)
                       /\ m.CreatedTime = IF ParseDayOk(CellAt(row, 2))
                                          THEN ParseDay(CellAt(row, 2)) ELSE ZeroTime
                       /\ m.ModifiedTime = IF ParseDayOk(CellAt(row, 3))
                                           THEN ParseDay(CellAt(row, 3)) ELSE ZeroTime
                       /\ Len(row) = NumColumns - 1 =>
                              \E e \in 1..Len(result.errors) :
                                  /\ result.errors[e].Id = id
                                  /\ \E k \in 1..Len(result.errors[e].errs) :
                                         result.errors[e].errs[k] = "missing description value"

\* the index sheet of the folder after an operation that obtained it
IndexSheetAfter == spreadsheets'[CHOOSE f \in driveFiles' : TRUE]

\* C16: a successful UpdateIndexMetadata with N records leaves a grid of
\* exactly 1 + N rows and as many columns as GoogleSheetIndexColumnMetadata
\* has entries; the header row is the one the sheet had, data row i shows
\* record i (identifier, title, the two dates as days, description), so no
\* row of another record is left, for N = 0 as for any N and whatever the
\* sheet held before.
C16_WriteAllReplaces ==
    [][calls' # calls /\ result'.op = "UpdateIndexMetadata" /\ result'.err = "" =>
          LET g == IndexSheetAfter
              N == Len(filesMetadata')
          IN  /\ g.RowCount = 1 + N
              /\ g.ColumnCount = NumColumns
              /\ Len(g.ColumnMetadata) = NumColumns
              /\ Len(g.RowData) = 1 + N
              /\ \A f \in driveFiles : g.RowData[1] = spreadsheets[f].RowData[1]
              /\ \A i \in 1..N :
                     LET row == g.RowData[i + 1]
                         m == filesMetadata'[i]
                     IN  /\ Len(row) = NumColumns
                         /\ row[1] = m.Id
                         /\ row[2] = m.Name
                         /\ ParseDayOk(row[3]) /\ ParseDay(row[3]).Day = m.CreatedTime.Day
                         /\ ParseDayOk(row[4]) /\ ParseDay(row[4]).Day = m.ModifiedTime.Day
                         /\ row[5] = m.Description]_vars

\* the second operation wrote one record to a sheet that was there before
\* the run
C16_Witness ==
    /\ result # <<>>
    /\ result.op = "UpdateIndexMetadata"
    /\ result.err = ""
    /\ OpsDone = 2
    /\ Len(filesMetadata) = 1
    /\ \A i \in 1..Len(calls) : calls[i].api # "Spreadsheets.Create"
    /\ Len(DataRows) = 1

(***************************************************************************)
(* The merge of the index records into the listing, GoogleDocMetadata.     *)
(* UpdateWith (drive_service.go lines 269-276) as main calls it            *)
(* (cmd/docblog/main.go lines 55-60).                                      *)
(***************************************************************************)
\* a mutant of lines 269-276: the title and the modification date are taken
\* from the index as well
UpdateWithEveryField(m1, m2) ==
    [m1 EXCEPT
        !.CreatedTime = IF ~IsZero(m2.CreatedTime) THEN m2.CreatedTime ELSE @,
        !.ModifiedTime = IF ~IsZero(m2.ModifiedTime) THEN m2.ModifiedTime ELSE @,
        !.Name = IF m2.Name # "" THEN m2.Name ELSE @,
        !.Description = IF m2.Description # "" THEN m2.Description ELSE @]

\* a mutant of lines 273-275: the description is assigned without the test
UpdateWithUntested(m1, m2) ==
    [m1 EXCEPT
        !.CreatedTime = IF ~IsZero(m2.CreatedTime) THEN m2.CreatedTime ELSE @,
        !.Description = m2.Description]

\* a mutant of lines 273-275: the description is appended
UpdateWithAppended(m1, m2) ==
    [m1 EXCEPT
        !.CreatedTime = IF ~IsZero(m2.CreatedTime) THEN m2.CreatedTime ELSE @,
        !.Description = IF m2.Description # "" THEN @ \o m2.Description ELSE @]

\* lines 269-276: m1 after m1.UpdateWith(m2)
UpdateWith(m1, m2) ==
    [m1 EXCEPT
        !.CreatedTime = IF ~IsZero(m2.CreatedTime) THEN m2.CreatedTime ELSE @,
        !.Description = IF m2.Description # "" THEN m2.Description ELSE @]

\* the maps GetIndexMetadata returns for sheets of rows it can read
IndexInputs ==
    {ReadRows(rows, <<>>, <<>>).output :
        rows \in {r \in UNION {RowSeqs(n) : n \in 0..MaxRows} :
                     \A k \in 1..Len(r) : Len(r[k]) >= NumColumns - 1}}

InitMerge ==
    /\ RewriterIdle
    /\ AssetsIdle
    /\ FrontmatterIdle
    /\ RunIdle
    /\ loopVarPerIteration = TRUE
    /\ driveFiles = {}
    /\ spreadsheets = <<>>
    /\ calls = <<>>
    /\ result = <<>>
    /\ indexMetadata \in IndexInputs
    /\ filesMetadata \in MetadataInputs
    /\ listed = filesMetadata
    /\ mergeIdx = 1

\* a mutant of line 56: the index record is not looked up by the document's
\* identifier, any record of the index is merged
MergeStepOfAnyRecord ==
    /\ mergeIdx <= Len(filesMetadata)
    /\ filesMetadata' =
           IF DOMAIN indexMetadata # {}
           THEN [filesMetadata EXCEPT
                    ![mergeIdx] = UpdateWith(@, indexMetadata[CHOOSE id \in DOMAIN indexMetadata : TRUE])]
           ELSE filesMetadata
    /\ mergeIdx' = mergeIdx + 1
    /\ UNCHANGED <<indexMetadata, listed>>

\* main.go lines 55-60: one iteration of the loop over filesMetadata
MergeStep ==
    /\ mergeIdx <= Len(filesMetadata)
    /\ filesMetadata' =
           IF filesMetadata[mergeIdx].Id \in DOMAIN indexMetadata
           THEN [filesMetadata EXCEPT
                    ![mergeIdx] = UpdateWith(@, indexMetadata[filesMetadata[mergeIdx].Id])]
           ELSE filesMetadata
    /\ mergeIdx' = mergeIdx + 1
    /\ UNCHANGED <<indexMetadata, listed>>

NextMerge ==
    \/ MergeStep /\ UNCHANGED <<rewriterVars, assetVars, frontmatterVars,
                               loopVarPerIteration, driveFiles, spreadsheets, calls, result,
                               runVars>>

SpecMerge == InitMerge /\ [][NextMerge]_vars

\* the positions of filesMetadata the loop has merged an index record into
Merged == {k \in 1..(mergeIdx - 1) : listed[k].Id \in DOMAIN indexMetadata}

\* the index record of the document at position k
IndexOf(k) == indexMetadata[listed[k].Id]

\* C17: after the merge every field of which the index holds a non-empty or
\* non-zero value (title, creation date, last-modified date, description)
\* carries the index's value, and a field carries the listing's value only
\* when the index has none.
C17_IndexValueWins ==
    \A k \in Merged :
        /\ filesMetadata[k].Id = listed[k].Id
        /\ filesMetadata[k].Name =
               IF IndexOf(k).Name # "" THEN IndexOf(k).Name ELSE listed[k].Name
        /\ filesMetadata[k].CreatedTime =
               IF ~IsZero(IndexOf(k).CreatedTime) THEN IndexOf(k).CreatedTime
               ELSE listed[k].CreatedTime
        /\ filesMetadata[k].ModifiedTime =
               IF ~IsZero(IndexOf(k).ModifiedTime) THEN IndexOf(k).ModifiedTime
               ELSE listed[k].ModifiedTime
        /\ filesMetadata[k].Description =
               IF IndexOf(k).Description # "" THEN IndexOf(k).Description
               ELSE listed[k].Description

\* C17 as amended: after the merge the creation date and the description
\* carry the index's value when the index holds a non-zero or non-empty one
\* and the listing's value otherwise; the title and the last-modified date
\* carry the listing's value whatever the index holds.
C17_IndexDateAndDescriptionWin ==
    \A k \in Merged :
        /\ filesMetadata[k].Id = listed[k].Id
        /\ filesMetadata[k].Name = listed[k].Name
        /\ filesMetadata[k].ModifiedTime = listed[k].ModifiedTime
        /\ filesMetadata[k].CreatedTime =
               IF ~IsZero(IndexOf(k).CreatedTime) THEN IndexOf(k).CreatedTime
               ELSE listed[k].CreatedTime
        /\ filesMetadata[k].Description =
               IF IndexOf(k).Description # "" THEN IndexOf(k).Description
               ELSE listed[k].Description

\* an index record with its own title, dates and description was merged
C17_Witness ==
    \E k \in Merged :
        /\ IndexOf(k).Name \notin {"", listed[k].Name}
        /\ ~IsZero(IndexOf(k).CreatedTime) /\ IndexOf(k).CreatedTime # listed[k].CreatedTime
        /\ ~IsZero(IndexOf(k).ModifiedTime) /\ IndexOf(k).ModifiedTime # listed[k].ModifiedTime
        /\ IndexOf(k).Description \notin {"", listed[k].Description}
        /\ listed[k].Description # ""

\* C18: a field of which the index record holds the empty string (title,
\* description) or the zero time (dates, as after a date that did not parse)
\* keeps the listing's value through the merge.
C18_EmptyIndexValueErasesNothing ==
    \A k \in Merged :
        /\ IndexOf(k).Name = "" => filesMetadata[k].Name = listed[k].Name
        /\ IndexOf(k).Description = "" => filesMetadata[k].Description = listed[k].Description
        /\ IsZero(IndexOf(k).CreatedTime) => filesMetadata[k].CreatedTime = listed[k].CreatedTime
        /\ IsZero(IndexOf(k).ModifiedTime) => filesMetadata[k].ModifiedTime = listed[k].ModifiedTime

\* an index record with an empty title, an empty description and a zero
\* creation date was merged into a listing record with a description and a
\* creation date
C18_Witness ==
    \E k \in Merged :
        /\ IndexOf(k).Name = ""
        /\ IndexOf(k).Description = "" /\ listed[k].Description # ""
        /\ IsZero(IndexOf(k).CreatedTime) /\ ~IsZero(listed[k].CreatedTime)

\* C19: UpdateWith of a record with its own value changes no field, and
\* merging the index record a second time changes nothing the first merge
\* left.
C19_MergeIdempotent ==
    /\ \A k \in 1..Len(filesMetadata) :
           UpdateWith(filesMetadata[k], filesMetadata[k]) = filesMetadata[k]
    /\ \A k \in Merged : UpdateWith(filesMetadata[k], IndexOf(k)) = filesMetadata[k]

\* a merge that changed the description and the creation date of a record
C19_Witness ==
    \E k \in Merged :
        /\ filesMetadata[k].Description # listed[k].Description
        /\ filesMetadata[k].CreatedTime # listed[k].CreatedTime
        /\ listed[k].Description # ""

\* the last operation is a GetIndexSheet that returned, and the one before it
\* an UpdateIndexMetadata that wrote filesMetadata
ReadAfterWrite ==
    /\ result # <<>>
    /\ result.op = "GetIndexSheet"
    /\ result.err = ""
    /\ Len(calls) >= 3
    /\ calls[Len(calls) - 2].api = "Spreadsheets.BatchUpdate"

\* C20: N records written with UpdateIndexMetadata and read back with
\* GetIndexSheet come back as N records, each equal to the one written on
\* identifier, title and description (an empty description included) and
\* with both dates on the day of the written ones.
C20_RoundTrip ==
    ReadAfterWrite =>
        /\ ~result.panic
        /\ Cardinality(DOMAIN result.output) = Len(filesMetadata)
        /\ \A k \in 1..Len(filesMetadata) :
               LET m == filesMetadata[k]
               IN  /\ m.Id \in DOMAIN result.output
                   /\ result.output[m.Id].Id = m.Id
                   /\ result.output[m.Id].Name = m.Name
                   /\ result.output[m.Id].Description = m.Description
                   /\ result.output[m.Id].CreatedTime = [Day |-> m.CreatedTime.Day, Sec |-> 0]
                   /\ result.output[m.Id].ModifiedTime = [Day |-> m.ModifiedTime.Day, Sec |-> 0]

\* two records read back, one with an empty description and a creation time
\* within the day, written to a sheet created by the write
C20_Witness ==
    /\ ReadAfterWrite
    /\ Len(filesMetadata) = 2
    /\ \E k \in 1..2 : filesMetadata[k].Description = "" /\ filesMetadata[k].CreatedTime.Sec # 0
    /\ calls[2].api = "Spreadsheets.Create"

(***************************************************************************)
(* The orchestrator, cmd/docblog/main.go lines 27-131: main reads the      *)
(* index, lists the documents of the folder, merges, exports and processes *)
(* every document and writes the index; the program is run again and       *)
(* again on the same folder.                                               *)
(***************************************************************************)
\* most runs of main, one after another
MaxRuns == 2

\* strings.ReplaceAll(s, " ", "-")
RECURSIVE ReplaceBlanks(_)
ReplaceBlanks(s) ==
    IF s = "" THEN ""
    ELSE (IF SubSeq(s, 1, 1) = " " THEN "-" ELSE SubSeq(s, 1, 1))
             \o ReplaceBlanks(SubSeq(s, 2, Len(s)))

\* drive_service.go lines 349-361, the date under JekyllPostDateFormat
FileName(m) ==
    (IF ~IsZero(m.CreatedTime)
     THEN LET c == DateOfDay(m.CreatedTime.Day)
          IN  Pad(c.Year, 4) \o "-" \o Pad(c.Month, 2) \o "-" \o Pad(c.Day, 2) \o "-"
     ELSE "")
        \o ReplaceBlanks(m.Name) \o ".html"

\* filepath.Ext(name): the suffix from the last dot of the last path element
Ext(name) ==
    LET dot == LastIndexFrom(name, ".", Len(name))
        slash == LastIndexFrom(name, "/", Len(name))
    IN  IF dot = 0 \/ dot < slash THEN "" ELSE SubSeq(name, dot, Len(name))

\* args.PostsOutputPath, its default
PostsOutputPath == "posts"

\* the document with identifier doc<k> as ListGoogleDocs reports it
\* (drive_service.go lines 143-148: no Description)
ListedDoc(k) ==
    [Id |-> "doc" \o ToString(k),
     Name |-> "Post " \o ToString(k),
     Description |-> "",
     CreatedTime |-> [Day |-> DayOfDate(2024, 1, k), Sec |-> 36000],
     ModifiedTime |-> [Day |-> DayOfDate(2024, 3, 1), Sec |-> 3600 * k]]

\* the documents a folder may hold
ListedInputs == {ListedDoc(1), ListedDoc(2)}

\* the listings of a folder: n of the documents in any order
RECURSIVE Listings(_)
Listings(n) ==
    IF n = 0 THEN {<<>>}
    ELSE {Append(p[1], p[2]) :
             p \in {q \in Listings(n - 1) \X ListedInputs :
                        \A i \in 1..Len(q[1]) : q[1][i].Id # q[2].Id}}

ListingInputs == UNION {Listings(n) : n \in 0..Cardinality(ListedInputs)}

\* the data rows an operator and earlier runs may have left in the sheet
RunRowInputs ==
    {<<>>,
     <<<<"doc1", "Old title", "05/01/2024", "06/01/2024", "Edited post">>>>,
     <<<<"doc1", "Post 1", "05/01/2024", "01/03/2024">>>>,
     <<<<"doc2", "", "2024-01-02", "", "Edited">>>>,
     <<<<"gone", "Deleted", "02/01/2024", "03/01/2024", "Old post", "note">>>>,
     <<<<"doc1", "Post 1", "02/01/2024", "01/03/2024", "">>,
       <<"gone", "Deleted", "02/01/2024", "03/01/2024", "Old post">>>>,
     <<<<"doc1", "Post 1", "02/01/2024", "01/03/2024", "First">>,
       <<"doc1", "Post 1", "03/01/2024", "01/03/2024", "Second">>>>,
     <<<<"doc1", "Post 1">>>>,
     <<<<"doc2", "Post 2", "29/02/2024", "01/03/2024", "Edited">>, <<>>>>}

\* the archive ExportGoogleDocToZippedHtml returns for a document: its html
\* file, for the first document of the folder behind the png file of its image
ArchivesOf(m) ==
    IF m.Id = ListedDoc(1).Id
    THEN {<<[Id |-> m.Id, Name |-> "images/image1.png"], [Id |-> m.Id, Name |-> m.Name \o ".html"]>>}
    ELSE {<<[Id |-> m.Id, Name |-> m.Name \o ".html"]>>}

\* the markup of the html file of document id: a body holding one image
ExportedHtml(id, prefix) ==
    [Id |-> id, Prefix |-> prefix, HeadKids |-> <<>>, BodyAttr |-> <<>>,
     BodyKids |-> <<El("img", <<At("src", "images/image1.png")>>)>>]

\* what ai.DescribeContent returns: a description or an error
DescribeOutcomes ==
    {[description |-> "Generated", err |-> ""], [description |-> "", err |-> "gemini"]}

\* the outcomes of the supplier for a record: main.go line 106 calls it only
\* for an empty Description
SupplierOutcomes(m) ==
    IF m.Description = "" THEN DescribeOutcomes ELSE {[description |-> "", err |-> "not called"]}

\* a mutant of lines 106-113: the description is not stored
DescribedNowhere(m, r) == m

\* main.go lines 106-113: the record after the supplier returned r
Described(m, r) ==
    IF m.Description = "" /\ r.err = "" THEN [m EXCEPT !.Description = r.description] ELSE m

\* main.go lines 115-130 without an error: the file processHtml writes for
\* the record m, the frontmatter block (part_006 lines 42-53) and the
\* rewritten markup
PostOf(m, prefix) ==
    [Frontmatter |-> FrontmatterContent([Id |-> m.Id, Name |-> m.Name,
                                         Description |-> m.Description,
                                         CreatedTime |-> m.CreatedTime,
                                         ModifiedTime |-> m.ModifiedTime,
                                         Content |-> ""]),
     Content |-> AllVisitedOut(ExportedHtml(m.Id, prefix))]

\* an entry of runLog
Called(op, id, e) == [op |-> op, id |-> id, err |-> e]

\* the rows an operator left in the index sheet of the folder, for the
\* identifiers that have one row of at least four cells
OperatorRows(files, sheets) ==
    IF Cardinality(files) # 1 THEN <<>>
    ELSE LET rows == Tail(sheets[CHOOSE f \in files : TRUE].RowData)
             ids == {rows[i][1] : i \in {j \in 1..Len(rows) : Len(rows[j]) >= 4}}
             one == {id \in ids : Cardinality({i \in 1..Len(rows) :
                                                  Len(rows[i]) >= 1 /\ rows[i][1] = id}) = 1}
         IN  [id \in one |-> rows[CHOOSE i \in 1..Len(rows) :
                                     Len(rows[i]) >= 1 /\ rows[i][1] = id]]

InitRun ==
    /\ RewriterIdle
    /\ FrontmatterIdle
    /\ loopVarPerIteration \in BOOLEAN
    /\ \/ driveFiles = {} /\ spreadsheets = <<>>
       \/ /\ driveFiles = {1}
          /\ \E rows \in RunRowInputs : spreadsheets = (1 :> GridOf(rows, loopVarPerIteration))
       \/ /\ driveFiles = {1, 2}
          /\ spreadsheets = (1 :> GridOf(<<>>, loopVarPerIteration))
                                @@ (2 :> GridOf(<<>>, loopVarPerIteration))
    /\ calls = <<>>
    /\ filesMetadata = <<>>
    /\ result = <<>>
    /\ indexMetadata = <<>>
    /\ listed \in ListingInputs
    /\ mergeIdx = 1
    /\ AssetsPathPrefix = ""
    /\ unzippedFiles = <<>>
    /\ assetFiles = <<>>
    /\ runPc = "read"
    /\ fileIdx = 1
    /\ posts = <<>>
    /\ runLog = <<>>
    /\ found = [driveFiles |-> driveFiles, spreadsheets |-> spreadsheets]
    /\ edited = OperatorRows(driveFiles, spreadsheets)
    /\ runs = 0

\* the requests of getOrCreateIndexSheet in the current state, each of
\* which may return an error
IndexRequests ==
    IF Cardinality(driveFiles) > 1 THEN {"Files.List"}
    ELSE IF driveFiles = {}
    THEN {"Files.List", "Spreadsheets.Create", "Files.Update", "Spreadsheets.Get"}
    ELSE {"Files.List", "Spreadsheets.Get"}

\* drive_service.go lines 387-442 when the request fail returns an error:
\* the requests before it have had their effect (a sheet that was created
\* exists, it is in the folder once Files.Update went through)
getOrCreateIndexSheetFailing(fail) ==
    LET sheet == getOrCreateIndexSheet
        k == CHOOSE i \in 1..Len(sheet.calls) : sheet.calls[i].api = fail
    IN  [err |-> "transport", id |-> 0,
         driveFiles |-> IF fail = "Spreadsheets.Get" THEN sheet.driveFiles ELSE driveFiles,
         spreadsheets |-> IF fail \in {"Files.Update", "Spreadsheets.Get"}
                          THEN sheet.spreadsheets ELSE spreadsheets,
         calls |-> SubSeq(sheet.calls, 1, k)]

\* main.go lines 45-48: GetIndexMetadata (drive_service.go lines 157-180);
\* an error and a panic of ParseRowData both end the program
GetIndexMetadata ==
    /\ runPc = "read"
    /\ GetIndexSheet
    /\ indexMetadata' = result'.output
    /\ runPc' = IF result'.err # "" \/ result'.panic THEN "panic" ELSE "list"
    /\ runLog' = Append(runLog, Called("GetIndexMetadata", "",
                                       IF result'.panic THEN "panic" ELSE result'.err))
    /\ UNCHANGED <<listed, mergeIdx, fileIdx, posts, found, edited, runs, assetVars>>

\* main.go lines 45-48 when a request of getOrCreateIndexSheet fails
GetIndexMetadataFail(fail) ==
    /\ runPc = "read"
    /\ fail \in IndexRequests
    /\ LET sheet == getOrCreateIndexSheetFailing(fail)
       IN  /\ driveFiles' = sheet.driveFiles
           /\ spreadsheets' = sheet.spreadsheets
           /\ calls' = calls \o sheet.calls
           /\ result' = [op |-> "GetIndexSheet", err |-> sheet.err, panic |-> FALSE,
                         output |-> <<>>, errors |-> <<>>]
    /\ runPc' = "panic"
    /\ runLog' = Append(runLog, Called("GetIndexMetadata", "", "transport"))
    /\ UNCHANGED <<loopVarPerIteration, filesMetadata, mergeVars, fileIdx, posts, found,
                   edited, runs, assetVars>>

\* main.go lines 50-53 when Files.List fails (drive_service.go lines 115-126)
ListGoogleDocsFail ==
    /\ runPc = "list"
    /\ runPc' = "panic"
    /\ runLog' = Append(runLog, Called("ListGoogleDocs", "", "transport"))
    /\ UNCHANGED <<indexVars, mergeVars, fileIdx, posts, found, edited, runs, assetVars>>

\* main.go lines 50-53: ListGoogleDocs returns the documents of the folder
ListGoogleDocs ==
    /\ runPc = "list"
    /\ filesMetadata' = listed
    /\ runPc' = "loop"
    /\ runLog' = Append(runLog, Called("ListGoogleDocs", "", ""))
    /\ UNCHANGED <<loopVarPerIteration, driveFiles, spreadsheets, calls, result,
                   mergeVars, fileIdx, posts, found, edited, runs, assetVars>>

\* a mutant of main.go lines 55-60: the index record is not merged in
MergeWithoutIndex ==
    /\ runPc = "loop"
    /\ mergeIdx <= Len(filesMetadata)
    /\ mergeIdx' = mergeIdx + 1
    /\ runLog' = Append(runLog, Called("UpdateWith", filesMetadata[mergeIdx].Id, ""))
    /\ UNCHANGED <<indexVars, indexMetadata, listed,
                   runPc, fileIdx, posts, found, edited, runs, assetVars>>

\* main.go lines 55-60 inside a run
Merge ==
    /\ runPc = "loop"
    /\ MergeStep
    /\ runLog' = Append(runLog, Called("UpdateWith", filesMetadata[mergeIdx].Id, ""))
    /\ UNCHANGED <<loopVarPerIteration, driveFiles, spreadsheets, calls, result,
                   runPc, fileIdx, posts, found, edited, runs, assetVars>>

\* the loop of lines 55-60 has ended and the loop of lines 62-93 stands at a document
AtDocument ==
    /\ runPc = "loop"
    /\ mergeIdx > Len(filesMetadata)
    /\ fileIdx <= Len(filesMetadata)

\* a mutant of main.go lines 66-69: the loop is left on an export error
ExportFailBreaks ==
    /\ AtDocument
    /\ fileIdx' = Len(filesMetadata) + 1
    /\ runLog' = Append(runLog, Called("ExportGoogleDocToZippedHtml",
                                       filesMetadata[fileIdx].Id, "transport"))
    /\ UNCHANGED <<indexVars, mergeVars, runPc, posts, found, edited, runs, assetVars>>

\* main.go lines 65-69: the export fails, the document is skipped
ExportFail ==
    /\ AtDocument
    /\ fileIdx' = fileIdx + 1
    /\ runLog' = Append(runLog, Called("ExportGoogleDocToZippedHtml",
                                       filesMetadata[fileIdx].Id, "transport"))
    /\ UNCHANGED <<indexVars, mergeVars, runPc, posts, found, edited, runs, assetVars>>

\* main.go lines 65-71: the export returns the files of the archive
Export ==
    /\ AtDocument
    /\ unzippedFiles' \in ArchivesOf(filesMetadata[fileIdx])
    /\ runPc' = "files"
    /\ runLog' = Append(runLog, Called("ExportGoogleDocToZippedHtml",
                                       filesMetadata[fileIdx].Id, ""))
    /\ UNCHANGED <<indexVars, mergeVars, fileIdx, posts, found, edited, runs,
                   AssetsPathPrefix, assetFiles>>

\* the loop of lines 71-92 stands at a file with the extension ext
AtFile(ext) ==
    /\ runPc = "files"
    /\ unzippedFiles # <<>>
    /\ Ext(Head(unzippedFiles).Name) = ext

\* lines 71-93 once the file at hand is dealt with: the next file, or the
\* next document after the last file
FileDone ==
    IF Tail(unzippedFiles) = <<>>
    THEN runPc' = "loop" /\ fileIdx' = fileIdx + 1
    ELSE UNCHANGED <<runPc, fileIdx>>

\* the entry of the supplier's call in runLog, none when it was not called
DescribeCalled(m, r) ==
    IF m.Description = "" THEN <<Called("DescribeContent", m.Id, r.err)>> ELSE <<>>

\* main.go lines 73-80 with processHtml (lines 100-131) returning nil: the
\* description, the rewrite, the frontmatter and the post file
ProcessHtml ==
    /\ AtFile(".html")
    /\ \E r \in SupplierOutcomes(filesMetadata[fileIdx]) :
           LET m == Described(filesMetadata[fileIdx], r)
               outputPath == PostsOutputPath \o "/" \o FileName(filesMetadata[fileIdx])
           IN  /\ filesMetadata' = [filesMetadata EXCEPT ![fileIdx] = m]
               /\ posts' = (outputPath :> PostOf(m, AssetsPathPrefix)) @@ posts
               /\ runLog' = runLog \o DescribeCalled(filesMetadata[fileIdx], r)
                                \o <<Called("processHtml", m.Id, "")>>
    /\ unzippedFiles' = Tail(unzippedFiles)
    /\ FileDone
    /\ UNCHANGED <<loopVarPerIteration, driveFiles, spreadsheets, calls, result,
                   mergeVars, found, edited, runs, AssetsPathPrefix, assetFiles>>

\* the errors processHtml returns (lines 115-130)
ProcessHtmlErrors ==
    {"failed to parse input HTML document", "failed to fix assets",
     "failed to add frontmatter", "create", "write"}

\* main.go lines 73-80 with processHtml returning an error, which main
\* logs: nothing is written unless it is WriteFile that fails after
\* os.Create, which leaves the file empty (util.go lines 24-33)
ProcessHtmlFail(e) ==
    /\ AtFile(".html")
    /\ \E r \in SupplierOutcomes(filesMetadata[fileIdx]) :
           LET m == Described(filesMetadata[fileIdx], r)
               outputPath == PostsOutputPath \o "/" \o FileName(filesMetadata[fileIdx])
           IN  /\ filesMetadata' = [filesMetadata EXCEPT ![fileIdx] = m]
               /\ posts' = IF e = "write"
                           THEN (outputPath :> [Frontmatter |-> "", Content |-> <<>>]) @@ posts
                           ELSE posts
               /\ runLog' = runLog \o DescribeCalled(filesMetadata[fileIdx], r)
                                \o <<Called("processHtml", m.Id, "error")>>
    /\ unzippedFiles' = Tail(unzippedFiles)
    /\ FileDone
    /\ UNCHANGED <<loopVarPerIteration, driveFiles, spreadsheets, calls, result,
                   mergeVars, found, edited, runs, AssetsPathPrefix, assetFiles>>

\* main.go lines 81-88 with WriteFile succeeding
ProcessPng ==
    /\ AtFile(".png")
    /\ WritePng
    /\ FileDone
    /\ runLog' = Append(runLog, Called("WriteFile", Head(unzippedFiles).Id, ""))
    /\ UNCHANGED <<indexVars, mergeVars, posts, found, edited, runs>>

\* main.go lines 81-88 with WriteFile failing, which main logs
ProcessPngFail ==
    /\ AtFile(".png")
    /\ unzippedFiles' = Tail(unzippedFiles)
    /\ FileDone
    /\ runLog' = Append(runLog, Called("WriteFile", Head(unzippedFiles).Id, "create"))
    /\ UNCHANGED <<indexVars, mergeVars, posts, found, edited, runs,
                   AssetsPathPrefix, assetFiles>>

\* a mutant of main.go lines 62-95: the index is written once the merge is
\* done, before the documents are processed
LoopsEndedAfterMerge ==
    /\ runPc = "loop"
    /\ mergeIdx > Len(filesMetadata)

\* main.go lines 55-93: both loops have ended
LoopsEnded ==
    /\ runPc = "loop"
    /\ mergeIdx > Len(filesMetadata)
    /\ fileIdx > Len(filesMetadata)

\* a mutant of main.go lines 95-97: the rows of the index that no listed
\* document claimed are written back behind the merged records
WriteIndexKeepingIndexOnly ==
    /\ LoopsEnded
    /\ UpdateIndexMetadata(filesMetadata \o
           LET ids == {id \in DOMAIN indexMetadata :
                          \A k \in 1..Len(filesMetadata) : filesMetadata[k].Id # id}
               seq == CHOOSE q \in [1..Cardinality(ids) -> ids] :
                          \A a \in ids : \E i \in DOMAIN q : q[i] = a
           IN  [i \in 1..Cardinality(ids) |->
                   [Id |-> seq[i], Name |-> indexMetadata[seq[i]].Name,
                    Description |-> indexMetadata[seq[i]].Description,
                    CreatedTime |-> indexMetadata[seq[i]].CreatedTime,
                    ModifiedTime |-> indexMetadata[seq[i]].ModifiedTime]])
    /\ runPc' = IF result'.err = "" THEN "done" ELSE "panic"
    /\ runLog' = Append(runLog, Called("UpdateIndexMetadata", "", result'.err))
    /\ UNCHANGED <<mergeVars, fileIdx, posts, found, edited, runs, assetVars>>

\* main.go lines 95-97: UpdateIndexMetadata (drive_service.go lines 184-234)
WriteIndex ==
    /\ LoopsEnded
    /\ UpdateIndexMetadata(filesMetadata)
    /\ runPc' = IF result'.err = "" THEN "done" ELSE "panic"
    /\ runLog' = Append(runLog, Called("UpdateIndexMetadata", "", result'.err))
    /\ UNCHANGED <<mergeVars, fileIdx, posts, found, edited, runs, assetVars>>

\* a mutant of lines 226-232: the failed batch has applied its first
\* request, the resize, and not the second
BatchUpdateFailedHalfway(grid, rows, applied) ==
    IF applied THEN UpdateSheetProperties(grid, 1 + Len(rows), NumColumns) ELSE grid

\* lines 226-232 with an error from BatchUpdate: the Sheets service applies
\* the requests of a batch together or not at all
BatchUpdateFailed(grid, rows, applied) ==
    IF applied THEN BatchUpdate(grid, rows) ELSE grid

\* main.go lines 95-97 when a request of UpdateIndexMetadata fails: one of
\* getOrCreateIndexSheet or the BatchUpdate
WriteIndexFail(fail) ==
    /\ LoopsEnded
    /\ fail \in IndexRequests \cup {"Spreadsheets.BatchUpdate"}
    /\ IF fail = "Spreadsheets.BatchUpdate"
       THEN LET sheet == getOrCreateIndexSheet
                rows == [i \in 1..Len(filesMetadata) |-> ToRowData(filesMetadata[i])]
            IN  /\ sheet.err = ""
                /\ driveFiles' = sheet.driveFiles
                /\ \E applied \in BOOLEAN :
                       spreadsheets' = [sheet.spreadsheets EXCEPT
                                           ![sheet.id] = BatchUpdateFailed(@, rows, applied)]
                /\ calls' = calls \o sheet.calls
                                 \o <<[api |-> "Spreadsheets.BatchUpdate", id |-> sheet.id]>>
       ELSE LET sheet == getOrCreateIndexSheetFailing(fail)
            IN  /\ driveFiles' = sheet.driveFiles
                /\ spreadsheets' = sheet.spreadsheets
                /\ calls' = calls \o sheet.calls
    /\ result' = [op |-> "UpdateIndexMetadata", err |-> "transport", panic |-> FALSE,
                  output |-> <<>>, errors |-> <<>>]
    /\ runPc' = "panic"
    /\ runLog' = Append(runLog, Called("UpdateIndexMetadata", "", "transport"))
    /\ UNCHANGED <<loopVarPerIteration, filesMetadata, mergeVars, fileIdx, posts, found,
                   edited, runs, assetVars>>

\* the program is started again on the folder as the last run left it; the
\* output directories are looked at run by run
NewRun ==
    /\ runPc \in {"done", "panic"}
    /\ runs + 1 < MaxRuns
    /\ runs' = runs + 1
    /\ runPc' = "read"
    /\ fileIdx' = 1
    /\ mergeIdx' = 1
    /\ posts' = <<>>
    /\ assetFiles' = <<>>
    /\ unzippedFiles' = <<>>
    /\ runLog' = <<>>
    /\ calls' = <<>>
    /\ result' = <<>>
    /\ filesMetadata' = <<>>
    /\ indexMetadata' = <<>>
    /\ found' = [driveFiles |-> driveFiles, spreadsheets |-> spreadsheets]
    /\ UNCHANGED <<loopVarPerIteration, driveFiles, spreadsheets, listed, edited,
                   AssetsPathPrefix>>

NextRun ==
    \/ GetIndexMetadata /\ UNCHANGED <<rewriterVars, frontmatterVars>>
    \/ \E fail \in IndexRequests :
           GetIndexMetadataFail(fail) /\ UNCHANGED <<rewriterVars, frontmatterVars>>
    \/ ListGoogleDocs /\ UNCHANGED <<rewriterVars, frontmatterVars>>
    \/ ListGoogleDocsFail /\ UNCHANGED <<rewriterVars, frontmatterVars>>
    \/ Merge /\ UNCHANGED <<rewriterVars, frontmatterVars>>
    \/ Export /\ UNCHANGED <<rewriterVars, frontmatterVars>>
    \/ ExportFail /\ UNCHANGED <<rewriterVars, frontmatterVars>>
    \/ ProcessHtml /\ UNCHANGED <<rewriterVars, frontmatterVars>>
    \/ \E e \in ProcessHtmlErrors :
           ProcessHtmlFail(e) /\ UNCHANGED <<rewriterVars, frontmatterVars>>
    \/ ProcessPng /\ UNCHANGED <<rewriterVars, frontmatterVars>>
    \/ ProcessPngFail /\ UNCHANGED <<rewriterVars, frontmatterVars>>
    \/ WriteIndex /\ UNCHANGED <<rewriterVars, frontmatterVars>>
    \/ \E fail \in IndexRequests \cup {"Spreadsheets.BatchUpdate"} :
           WriteIndexFail(fail) /\ UNCHANGED <<rewriterVars, frontmatterVars>>
    \/ NewRun /\ UNCHANGED <<rewriterVars, frontmatterVars>>

SpecRun == InitRun /\ [][NextRun]_vars

RunTypeOK ==
    /\ runPc \in {"read", "list", "loop", "files", "done", "panic"}
    /\ runs \in 0..(MaxRuns - 1)
    /\ fileIdx \in 1..(Len(filesMetadata) + 1)
    /\ mergeIdx \in 1..(Len(filesMetadata) + 1)
    /\ runPc = "files" => fileIdx <= Len(filesMetadata)

(***************************************************************************)
(* Properties of a run.                                                    *)
(***************************************************************************)
\* the data rows of the index sheet the run found in the folder
FoundRows ==
    IF Cardinality(found.driveFiles) # 1 THEN <<>>
    ELSE Tail(found.spreadsheets[CHOOSE f \in found.driveFiles : TRUE].RowData)

\* the loop of lines 55-60 has ended and no document has been dealt with
MergeEnded ==
    /\ runPc = "loop"
    /\ mergeIdx > Len(filesMetadata)
    /\ fileIdx = 1

\* C21: after the merge of a run there is one record per identifier: the
\* merged list has the identifiers of the listing, in its order and number
\* and each of them once; an index row is the row of at most one merged
\* record; and a merged record is the listing's record of the same position,
\* updated with the index record of its own identifier if there is one.
C21_OneRecordPerIdentifier ==
    MergeEnded =>
        /\ Len(filesMetadata) = Len(listed)
        /\ \A k \in 1..Len(listed) : filesMetadata[k].Id = listed[k].Id
        /\ \A k \in 1..Len(filesMetadata) : \A j \in 1..Len(filesMetadata) :
               filesMetadata[k].Id = filesMetadata[j].Id => k = j
        /\ \A i \in 1..Len(FoundRows) :
               Cardinality({k \in 1..Len(filesMetadata) :
                               filesMetadata[k].Id = CellAt(FoundRows[i], 0)}) <= 1
        /\ \A k \in 1..Len(listed) :
               filesMetadata[k] =
                   IF listed[k].Id \in DOMAIN indexMetadata
                   THEN UpdateWith(listed[k], indexMetadata[listed[k].Id])
                   ELSE listed[k]

\* a merge of two listed documents with an index that holds two rows of the
\* first and none of the second
C21_Witness ==
    /\ MergeEnded
    /\ Len(filesMetadata) = 2
    /\ Len(FoundRows) = 2
    /\ \E k \in 1..2 :
           /\ filesMetadata[k].Id = "doc1"
           /\ CellAt(FoundRows[1], 0) = "doc1" /\ CellAt(FoundRows[2], 0) = "doc1"
           /\ filesMetadata[k].Description = "Second"
           /\ filesMetadata[3 - k].Id \notin DOMAIN indexMetadata

\* the identifiers of the listing
ListedIds == {listed[k].Id : k \in 1..Len(listed)}

\* C22: the listing decides what the index holds after a run.  A record the
\* index has and the listing lacks is in no data row of the grid once the
\* run has written the index; a record the listing has and the index lacks
\* leaves the merge as the listing gave it, and after the write the data row
\* of its position shows it (with the description the run gave it, if any).
C22_ListingDecidesIndex ==
    /\ MergeEnded =>
           \A k \in 1..Len(listed) :
               listed[k].Id \notin DOMAIN indexMetadata => filesMetadata[k] = listed[k]
    /\ runPc = "done" =>
           /\ Len(DataRows) = Len(listed)
           /\ \A i \in 1..Len(DataRows) : CellAt(DataRows[i], 0) \in ListedIds
           /\ \A i \in 1..Len(FoundRows) :
                  CellAt(FoundRows[i], 0) \notin ListedIds =>
                      \A j \in 1..Len(DataRows) :
                          CellAt(DataRows[j], 0) # CellAt(FoundRows[i], 0)
           /\ \A k \in 1..Len(listed) :
                  listed[k].Id \notin DOMAIN indexMetadata =>
                      /\ [filesMetadata[k] EXCEPT !.Description = ""] = listed[k]
                      /\ DataRows[k] = [j \in 1..NumColumns |->
                                           FormattedValue(ToRowData(filesMetadata[k])[j])]

\* a run over an index with a row of a listed document and a row of one
\* that is no longer listed, and a listing with a document the index lacks
C22_Witness ==
    /\ runPc = "done"
    /\ \E i \in 1..Len(FoundRows) : CellAt(FoundRows[i], 0) = "gone"
    /\ "gone" \in DOMAIN indexMetadata
    /\ \E k \in 1..Len(listed) :
           /\ listed[k].Id = "doc2"
           /\ "doc2" \notin DOMAIN indexMetadata
           /\ CellAt(DataRows[k], 0) = "doc2"
    /\ \A j \in 1..Len(DataRows) : CellAt(DataRows[j], 0) # "gone"

\* the positions of runLog at which the operation op was called
CallsOf(op) == {i \in 1..Len(runLog) : runLog[i].op = op}

\* the operations of the loop of lines 62-93
ProcessingOps == {"ExportGoogleDocToZippedHtml", "DescribeContent", "processHtml", "WriteFile"}

\* the positions of runLog at which a document was exported or processed
ProcessingCalls == UNION {CallsOf(op) : op \in ProcessingOps}

\* the positions of calls at which the grid was written
GridWrites == {i \in 1..Len(calls) : calls[i].api = "Spreadsheets.BatchUpdate"}

\* C23: the order of a run.  The index is read once, before any export or
\* processing step; every merge step comes before every export or processing
\* step; the index is written at most once, as the last step, after every
\* listed document has had its export, and a run that ends normally has read
\* once and written once; no write of the grid happens while documents are
\* being processed.
C23_ReadMergeProcessWrite ==
    /\ Cardinality(CallsOf("GetIndexMetadata")) <= 1
    /\ runLog # <<>> => runLog[1].op = "GetIndexMetadata"
    /\ \A i \in CallsOf("UpdateWith") : \A j \in ProcessingCalls : i < j
    /\ Cardinality(CallsOf("UpdateIndexMetadata")) <= 1
    /\ \A i \in CallsOf("UpdateIndexMetadata") :
           /\ i = Len(runLog)
           /\ \A k \in 1..Len(listed) :
                  Cardinality({j \in CallsOf("ExportGoogleDocToZippedHtml") :
                                  runLog[j].id = listed[k].Id}) = 1
    /\ runPc \in {"loop", "files"} => GridWrites = {}
    /\ Cardinality(GridWrites) <= 1
    /\ runPc = "done" =>
           /\ Cardinality(CallsOf("GetIndexMetadata")) = 1
           /\ Cardinality(CallsOf("UpdateIndexMetadata")) = 1
           /\ Cardinality(GridWrites) = 1
           /\ calls[Len(calls)].api = "Spreadsheets.BatchUpdate"

\* a finished run over an index with a row and two listed documents, both
\* merged, exported and processed
C23_Witness ==
    /\ runPc = "done"
    /\ FoundRows # <<>>
    /\ Len(listed) = 2
    /\ Cardinality(CallsOf("UpdateWith")) >= 1
    /\ Cardinality(CallsOf("processHtml")) = 2
    /\ runLog[Len(runLog)].op = "UpdateIndexMetadata"

\* the entries of runLog about the document id under the operation op
EntriesOf(op, id) == {i \in CallsOf(op) : runLog[i].id = id}

\* the entries of runLog that report a failure of a step of the document loop
FailedSteps == {i \in ProcessingCalls : runLog[i].err # ""}

\* what C24 says of a state of a run
DocumentFailureIsLocal ==
    /\ runPc = "panic" =>
           /\ runLog[Len(runLog)].op \in {"GetIndexMetadata", "ListGoogleDocs", "UpdateIndexMetadata"}
           /\ runLog[Len(runLog)].err # ""
    /\ (LoopsEnded \/ runPc = "done") =>
           \A k \in 1..Len(listed) :
               LET id == listed[k].Id
                   path == PostsOutputPath \o "/" \o FileName(filesMetadata[k])
               IN  /\ Cardinality(EntriesOf("ExportGoogleDocToZippedHtml", id)) = 1
                   /\ Cardinality(EntriesOf("processHtml", id)) =
                          Cardinality({i \in EntriesOf("ExportGoogleDocToZippedHtml", id) :
                                          runLog[i].err = ""})
                   /\ (\E i \in EntriesOf("processHtml", id) : runLog[i].err = "") =>
                          /\ path \in DOMAIN posts
                          /\ posts[path] = PostOf(filesMetadata[k], AssetsPathPrefix)
    /\ runPc = "done" =>
           /\ runLog[Len(runLog)] = Called("UpdateIndexMetadata", "", "")
           /\ \A k \in 1..Len(listed) : CellAt(DataRows[k], 0) = listed[k].Id

\* what C24 says of a step of a run: a step of the document loop stays in
\* the run, and the step after the loop is the index write
BatchGoesOn ==
    /\ (runPc \in {"loop", "files"} /\ ~LoopsEnded) => runPc' \in {"loop", "files"}
    /\ LoopsEnded =>
           /\ Len(runLog') = Len(runLog) + 1
           /\ runLog'[Len(runLog')].op = "UpdateIndexMetadata"

\* C24: a failure while one document is processed (its export, the parse,
\* the frontmatter, a file write) is logged and does not end the batch.  The
\* program ends abnormally only on a failed index read, listing or index
\* write; no step of the document loop leaves the run, and the step behind
\* the loop is the index write; when the loop has ended every listed
\* document has had exactly one export and, if exported, exactly one
\* processing of its html file, the post of every document processed without
\* error is the one its own record and markup give; a run that ended
\* normally has written the row of every listed document.
C24_DocumentFailureIsLocal == []DocumentFailureIsLocal /\ [][BatchGoesOn]_vars

\* a run that ended normally although the export of one of its two
\* documents failed; the other document has its post
C24_Witness ==
    /\ runPc = "done"
    /\ Len(listed) = 2
    /\ \E k \in 1..2 :
           /\ \E i \in EntriesOf("ExportGoogleDocToZippedHtml", listed[k].Id) :
                  runLog[i].err # ""
           /\ \E i \in EntriesOf("processHtml", listed[3 - k].Id) : runLog[i].err = ""
           /\ (PostsOutputPath \o "/" \o FileName(filesMetadata[3 - k])) \in DOMAIN posts
    /\ Len(DataRows) = 2

\* the rows the index write of the run sends
RowsToWrite == [i \in 1..Len(filesMetadata) |-> ToRowData(filesMetadata[i])]

\* no grid holds a part of an update of this run: a sheet the run found is
\* as it was or holds the whole update, a sheet the run created holds its
\* header row and nothing else or the whole update
NoPartialUpdate ==
    \A f \in DOMAIN spreadsheets :
        IF f \in DOMAIN found.spreadsheets
        THEN \/ spreadsheets[f] = found.spreadsheets[f]
             \/ spreadsheets[f] = BatchUpdate(found.spreadsheets[f], RowsToWrite)
        ELSE \/ spreadsheets[f] = GridOf(<<>>, loopVarPerIteration)
             \/ spreadsheets[f] = BatchUpdate(GridOf(<<>>, loopVarPerIteration), RowsToWrite)

\* the operations whose failure ends the run: the listing and the locate,
\* create, read and write operations of the index
FatalOps == {"GetIndexMetadata", "ListGoogleDocs", "UpdateIndexMetadata"}

\* C25 as stated: a failed listing, a failed export and a failed index
\* operation each end the run at once, and no grid holds a partial update.
C25_TransportErrorsFatal ==
    /\ \A i \in 1..Len(runLog) :
           (runLog[i].op \in FatalOps \cup {"ExportGoogleDocToZippedHtml"} /\ runLog[i].err # "") =>
               /\ runPc = "panic"
               /\ i = Len(runLog)
    /\ NoPartialUpdate

\* C25 amended: a failed listing and a failed locate, create, read or write
\* of the index end the run at once, and no grid ever holds a partial update
\* of the run; a failed export ends the processing of its document only,
\* the run goes on with the next document.
C25_IndexAndListingErrorsFatal ==
    /\ \A i \in 1..Len(runLog) :
           (runLog[i].op \in FatalOps /\ runLog[i].err # "") =>
               /\ runPc = "panic"
               /\ i = Len(runLog)
    /\ NoPartialUpdate
    /\ \A i \in 1..Len(runLog) :
           (runLog[i].op = "ExportGoogleDocToZippedHtml" /\ runLog[i].err # "") =>
               /\ i = Len(runLog) => runPc = "loop"
               /\ Cardinality(EntriesOf("processHtml", runLog[i].id)) = 0

\* a run that ended on a failed index write behind a failed export, the
\* sheet it found holding rows other than the ones it had to write
C25_Witness ==
    /\ runPc = "panic"
    /\ runLog[Len(runLog)] = Called("UpdateIndexMetadata", "", "transport")
    /\ \E i \in 1..Len(runLog) :
           runLog[i].op = "ExportGoogleDocToZippedHtml" /\ runLog[i].err # ""
    /\ \E f \in DOMAIN found.spreadsheets :
           /\ spreadsheets[f] = found.spreadsheets[f]
           /\ Len(found.spreadsheets[f].RowData) = 3
           /\ BatchUpdate(found.spreadsheets[f], RowsToWrite) # found.spreadsheets[f]
           /\ Len(RowsToWrite) = 1

(***************************************************************************)
(* Properties of the traversal as a whole.                                 *)
(***************************************************************************)
\* the children html.Parse gave the node n
ChildrenOf(n) == {c \in DOMAIN Parsed : Parsed[c].Parent = n}

\* the calls of modifyContent that the call for n has started
SpawnedBy(n) == {c \in DOMAIN spawner : spawner[c] = n}

\* C26: the traversal fans out and joins.  A call of modifyContent that has
\* returned has started one task for each child of its node, and each task
\* it started has returned before it (so has, transitively, every task of a
\* descendant); html.Render of WithFixedContent runs only when no call is
\* left that could still change the tree.
C26_FanOutFanIn ==
    /\ tree # <<>> =>
           \A n \in DOMAIN pc :
               pc[n] = "done" =>
                   /\ wg[n] = 0
                   /\ \A c \in SpawnedBy(n) : pc[c] = "done"
                   /\ SpawnedBy(n) = ChildrenOf(n)
                   /\ \A c \in ChildrenOf(n) : visits[c] = 1
    /\ mainPc \in {"done", "written"} =>
           \A n \in DOMAIN pc : pc[n] \in {"idle", "done"}

\* C27: every node of the parsed tree is visited by modifyContent exactly
\* once in a rewrite: no node has a second call at any time, and when
\* WithFixedContent has rendered the tree every node has had its call, the
\* siblings that follow a detached style element included.
C27_EveryNodeVisitedOnce ==
    /\ NoRevisit
    /\ Finished => \A n \in NodeIds(input) : visits[n] = 1

(***************************************************************************)
(* Properties of a run, continued.                                         *)
(***************************************************************************)
\* does the literal lit occur in s
Contains(s, lit) == \E i \in 1..Len(s) : LitAt(s, i, lit)

\* the record of position k as the merge of the run left it
MergedRecord(k) ==
    IF listed[k].Id \in DOMAIN indexMetadata
    THEN UpdateWith(listed[k], indexMetadata[listed[k].Id])
    ELSE listed[k]

\* the path of the post of the record of position k
PostPath(k) == PostsOutputPath \o "/" \o FileName(filesMetadata[k])

\* C28: the description supplier.  It is called for a document at most once
\* and only when the merged description is empty.  A description it returned
\* is the Description of the in-memory record from then on, is in the
\* frontmatter of the document's post when processHtml wrote it, and is in
\* the description cell of the document's row when the run has written the
\* index.  When it failed the Description stays empty, and the document is
\* still processed: processHtml goes on after the failed call and, unless a
\* later step of its own fails, writes the post with an empty description.
C28_DescriptionSupplier ==
    (runPc \in {"loop", "files", "done"} /\ mergeIdx > Len(filesMetadata)) =>
        \A k \in 1..Len(listed) :
            LET id == listed[k].Id
                asked == EntriesOf("DescribeContent", id)
                processed == EntriesOf("processHtml", id)
            IN  /\ Cardinality(asked) <= 1
                /\ asked # {} => MergedRecord(k).Description = ""
                /\ processed # {} => (asked # {} <=> MergedRecord(k).Description = "")
                /\ asked = {} => filesMetadata[k] = MergedRecord(k)
                /\ \A i \in asked :
                       /\ filesMetadata[k] =
                              [MergedRecord(k) EXCEPT
                                  !.Description = IF runLog[i].err = "" THEN "Generated" ELSE ""]
                       /\ \E j \in processed : j = i + 1
                       /\ runLog[i + 1].err = "" =>
                              /\ PostPath(k) \in DOMAIN posts
                              /\ posts[PostPath(k)] = PostOf(filesMetadata[k], AssetsPathPrefix)
                              /\ Contains(posts[PostPath(k)].Frontmatter,
                                          "excerpt: " \o YamlString(filesMetadata[k].Description) \o "\n")
                       /\ runPc = "done" =>
                              CellAt(DataRows[k], 4) = filesMetadata[k].Description

\* a finished run in which the supplier gave a description for one document
\* and failed for the other, both posts written
C28_Witness ==
    /\ runPc = "done"
    /\ Len(listed) = 2
    /\ \E k \in 1..2 :
           /\ \E i \in EntriesOf("DescribeContent", listed[k].Id) : runLog[i].err = ""
           /\ \E i \in EntriesOf("DescribeContent", listed[3 - k].Id) : runLog[i].err # ""
           /\ filesMetadata[k].Description = "Generated"
           /\ CellAt(DataRows[k], 4) = "Generated"
           /\ Contains(posts[PostPath(k)].Frontmatter, "excerpt: Generated\n")
           /\ filesMetadata[3 - k].Description = ""
           /\ PostPath(3 - k) \in DOMAIN posts
           /\ Contains(posts[PostPath(3 - k)].Frontmatter, "excerpt: \"\"\n")

(***************************************************************************)
(* The rewriter and the asset loop together.                               *)
(***************************************************************************)
\* the names of the png entries of the archive of the document in: the
\* files its img elements refer to
PngEntries(in) ==
    {AttrVal(Parsed[n], "src") : n \in {m \in InputElements("img") : HasAttr(Parsed[m], "src")}}

\* main.go lines 81-85: the paths under the assets output directory at which
\* the png entries of the document are written
WrittenAssetPaths(in) == {NormalizedAssetPath(in.Prefix, in.Id, n) : n \in PngEntries(in)}

\* C29: the references to assets agree with the assets written.  When the
\* rewrite is done, the src of every img of the input that named the png
\* entry n is "/" followed by the path at which the asset loop writes n, so
\* the src without its leading "/" is the path of a written file, with and
\* without a prefix.
C29_SrcIsWrittenPath ==
    Finished =>
        \A n \in InputElements("img") :
            HasAttr(Parsed[n], "src") =>
                LET src == AttrVal(tree[n], "src")
                IN  /\ HasPrefix(src, "/")
                    /\ From(src, 2) \in WrittenAssetPaths(input)
                    /\ From(src, 2) =
                           NormalizedAssetPath(input.Prefix, input.Id, AttrVal(Parsed[n], "src"))

\* the description the operator gave the document id, "" for none
OperatorDescription(id) == CellAt(edited[id], 4)

\* the Date cell the operator gave the document id
OperatorDate(id) == CellAt(edited[id], 2)

\* has the operator set a date that ParseRowData reads and UpdateWith takes
OperatorDateSet(id) == ParseDayOk(OperatorDate(id)) /\ ~IsZero(ParseDay(OperatorDate(id)))

\* the row carries what the operator set for the document id
CarriesEdits(row, id) ==
    /\ OperatorDescription(id) # "" => CellAt(row, 4) = OperatorDescription(id)
    /\ OperatorDateSet(id) => CellAt(row, 2) = OperatorDate(id)

\* C30: what an operator set in the index row of a document (a non-empty
\* description, a date in the Date cell) stays, in the first run after the
\* edit and in every run after it, as long as the document is listed: the
\* record the merge leaves for processing has the operator's description and
\* the operator's day as creation date, the row a run writes back shows
\* both, and at no moment of a run, ended normally or not, does a row of
\* the document in the sheet show anything else.
C30_OperatorEditsPersist ==
    \A k \in 1..Len(listed) :
        LET id == listed[k].Id
        IN  id \in DOMAIN edited =>
                /\ (runPc \in {"loop", "files", "done"} /\ mergeIdx > Len(filesMetadata)) =>
                       /\ OperatorDescription(id) # "" =>
                              filesMetadata[k].Description = OperatorDescription(id)
                       /\ OperatorDateSet(id) =>
                              filesMetadata[k].CreatedTime = ParseDay(OperatorDate(id))
                /\ runPc = "done" => CarriesEdits(DataRows[k], id)
                /\ \A f \in driveFiles :
                       \A i \in 2..Len(spreadsheets[f].RowData) :
                           CellAt(spreadsheets[f].RowData[i], 0) = id =>
                               CarriesEdits(spreadsheets[f].RowData[i], id)

\* the second run has ended; the operator had given the first document a
\* description and a date other than the listing's, and its row shows both
C30_Witness ==
    /\ runs = MaxRuns - 1
    /\ runPc = "done"
    /\ "doc1" \in DOMAIN edited
    /\ OperatorDescription("doc1") = "Edited post"
    /\ OperatorDate("doc1") = "05/01/2024"
    /\ \E k \in 1..Len(listed) :
           /\ listed[k].Id = "doc1"
           /\ listed[k].CreatedTime.Day # ParseDay("05/01/2024").Day
           /\ filesMetadata[k].CreatedTime = ParseDay("05/01/2024")
           /\ filesMetadata[k].Description = "Edited post"
           /\ CellAt(DataRows[k], 2) = "05/01/2024"
           /\ CellAt(DataRows[k], 4) = "Edited post"

====
